---- MODULE Spec2Model ----
(***************************************************************************)
(* Model of PhilipsAirPurifierCoordinator (coordinator.py): the supervisor *)
(* that owns the CoAP client of one device, the observation task, the      *)
(* watchdog task and the reconnect task, on one cooperative event loop.    *)
(* One action is one uninterrupted run of a coroutine between two awaits.  *)
(***************************************************************************)
EXTENDS Integers, Sequences, FiniteSets, TLC

\* ---- bounds of the model ------------------------------------------------
MaxTasks == 7
MaxTime == 5
MaxClients == 3
MaxShutdownCalls == 2
MaxFetches == 2
MaxEntries == 3

\* ---- program constants --------------------------------------------------
MISSED_PACKAGE_COUNT == 3
DEFAULT_TIMEOUT == 60

\* ---- values the device can report ---------------------------------------
Statuses == { [pwr |-> "1"], [pwr |-> "0", mode |-> "AG"] }
Hints == {1, 2}
None == [none |-> TRUE]

\* ---- commands the entities send, and the errors a write can raise ------------
ControlKeys == {"pwr"}
ControlVals == {"0"}
ControlMaps == { [pwr |-> "1", mode |-> "M"] }
WriteErrors == {"connection lost"}

VARIABLES
    client,            \* self.client: id of the client object currently held
    created,           \* number of client objects created so far
    shutdowns,         \* per client object: number of shutdown() calls made
    data,              \* self.data: the status cache
    timeout,           \* self._timeout
    last_update,       \* self._last_update
    device_available,  \* self._device_available
    observe_task,      \* self._observe_task   (0 is None, else a task id)
    watchdog_task,     \* self._watchdog_task
    reconnect_task,    \* self._reconnect_task
    tasks,             \* every task created on the event loop, by id
    now,               \* the loop's monotonic clock
    caller,            \* position of the code that owns the coordinator
    shutdown_calls,    \* number of async_shutdown calls made
    cmd,               \* position of the entity code that sends a command or
                       \* asks for a refresh
    ev,                \* what the last step did (operation, effects, logs)
    probe,             \* the run of async_fetch_status (client.py) in progress
    patch,             \* the values an entity command will put into the cache
                       \* once its write has returned (None: no command)
    hass               \* the integration in Home Assistant: its registered
                       \* services and the state of each config entry

vars == << client, created, shutdowns, data, timeout, last_update,
           device_available, observe_task, watchdog_task, reconnect_task,
           tasks, now, caller, shutdown_calls, cmd, ev, probe, patch, hass >>

\* ---- tasks ----------------------------------------------------------------
\* kind: which coroutine the task runs; pc: where it is suspended;
\* cl: the client object the coroutine works on; wake: end of its sleep;
\* got: 1 once the task's stream has yielded an item (kept for the record).
Task(kind, pc, cl, wake) ==
    [kind |-> kind, pc |-> pc, cl |-> cl, wake |-> wake, got |-> 0]

Finished(t) == t.pc \in {"done", "cancelled", "failed"}

\* asyncio.Task.done()
Done(ts, h) == Finished(ts[h])

\* asyncio.Task.cancel(): no effect on a finished task; a pending task ends
\* with CancelledError at its current await, which every coroutine re-raises.
Cancel(ts, h) ==
    IF h = 0 \/ Finished(ts[h]) THEN ts
    ELSE [ts EXCEPT ![h] = Task(ts[h].kind, "cancelled", ts[h].cl, 0)]

Finish(ts, h) == [ts EXCEPT ![h].pc = "done", ![h].wake = 0]

\* hass.async_create_task(coro)
CreateTask(ts, kind, cl) == Append(ts, Task(kind, "start", cl, 0))

\* ---- the record of the last step -----------------------------------------
\* op: the step taken; task: the task that took it (0: the caller); item, hint:
\* the status map and poll-interval hint the client delivered in it; seq: the
\* step's effects in program order; logs: the log lines it wrote.
Event(op, task, item, hint, seq, logs) ==
    [op |-> op, task |-> task, item |-> item, hint |-> hint, seq |-> seq, logs |-> logs]

InSeq(x, s) == \E i \in 1..Len(s) : s[i] = x

\* ---- availability flag ------------------------------------------------------
\* _mark_unavailable / _mark_available: the new value of the flag, and the
\* log line written when the flag changes.
MarkUnavailable(avail) == FALSE

MarkAvailable(avail) == TRUE

\* mutant: the warning is written on every call of _mark_unavailable
MarkUnavailableLogsEveryCall(avail) == {"warning_unavailable"}

MarkUnavailableLogs(avail) == IF avail THEN {"warning_unavailable"} ELSE {}

MarkAvailableLogs(avail) == IF ~avail THEN {"info_back_online"} ELSE {}

\* mutant: the new map is not published
SetUpdatedDataDropped(old, S) == old

\* async_set_updated_data(status): the cache is replaced by the new map
\* mutant: the new map is merged into the old one (keys the new map lacks
\* are kept)
SetUpdatedDataMerged(old, S) ==
    IF old = None THEN S
    ELSE [k \in DOMAIN old \cup DOMAIN S |-> IF k \in DOMAIN S THEN S[k] ELSE old[k]]

SetUpdatedData(old, S) == S

\* ---- _start_observing ----------------------------------------------------------
\* Cancels the previous observation task, creates a new one, cancels the
\* previous watchdog task, creates a new one; no await in between.
\* mutant: the watchdog half of the pair is forgotten
StartObservingOnlyObserve(ts, ot, wt) ==
    LET ts1 == CreateTask(Cancel(ts, ot), "observe", 0)
    IN  [tasks |-> ts1, observe_task |-> Len(ts1), watchdog_task |-> wt]

\* mutant: the previous tasks are replaced without being cancelled
StartObservingNoCancel(ts, ot, wt) ==
    LET ts1 == CreateTask(ts, "observe", 0)
        ts2 == CreateTask(ts1, "watchdog", 0)
    IN  [tasks |-> ts2, observe_task |-> Len(ts1), watchdog_task |-> Len(ts2)]

StartObserving(ts, ot, wt) ==
    LET ts1 == CreateTask(Cancel(ts, ot), "observe", 0)
        ts2 == CreateTask(Cancel(ts1, wt), "watchdog", 0)
    IN  [tasks |-> ts2, observe_task |-> Len(ts1), watchdog_task |-> Len(ts2)]

\* ---- _async_reconnect (the guard) ---------------------------------------------
\* mutant: the guard without its in-flight test
AsyncReconnectUnguarded(ts, rt) ==
    [tasks |-> CreateTask(ts, "reconnect", 0),
     reconnect_task |-> Len(ts) + 1, spawned |-> TRUE]

\* mutant: a reconnect handle that is set blocks the guard for good (no
\* done() test)
AsyncReconnectOnce(ts, rt) ==
    IF rt # 0
    THEN [tasks |-> ts, reconnect_task |-> rt, spawned |-> FALSE]
    ELSE [tasks |-> CreateTask(ts, "reconnect", 0),
          reconnect_task |-> Len(ts) + 1, spawned |-> TRUE]

\* mutant: the body is created but its task is not kept in the handle
AsyncReconnectForgetsHandle(ts, rt) ==
    IF rt # 0 /\ ~Done(ts, rt)
    THEN [tasks |-> ts, reconnect_task |-> rt, spawned |-> FALSE]
    ELSE [tasks |-> CreateTask(ts, "reconnect", 0),
          reconnect_task |-> rt, spawned |-> TRUE]

AsyncReconnect(ts, rt) ==
    IF rt # 0 /\ ~Done(ts, rt)
    THEN [tasks |-> ts, reconnect_task |-> rt, spawned |-> FALSE]
    ELSE [tasks |-> CreateTask(ts, "reconnect", 0),
          reconnect_task |-> Len(ts) + 1, spawned |-> TRUE]

\* ---- the watchdog's staleness test ---------------------------------------------
\* mutant: the threshold itself counts as stale
WatchdogStaleInclusive(lu, t, to) ==
    lu > 0 /\ (t - lu) >= to * MISSED_PACKAGE_COUNT

WatchdogStale(lu, t, to) ==
    lu > 0 /\ (t - lu) > to * MISSED_PACKAGE_COUNT

\* asyncio.sleep(self._timeout * MISSED_PACKAGE_COUNT) started at time t
SleepUntil(t, to) == t + to * MISSED_PACKAGE_COUNT

TaskIds == 1..Len(tasks)

At(t, kind, pc) == t \in TaskIds /\ tasks[t].kind = kind /\ tasks[t].pc = pc

Room(n) == Len(tasks) + n <= MaxTasks

\* ---- initial state: __init__ ---------------------------------------------------
\* ---- state outside the coordinator ------------------------------------------------
\* async_fetch_status: pc is where the helper is suspended; client is TRUE once
\* its temporary client exists; shutdowns counts the shutdown() calls made on
\* that client; pending is what the try block left to return or to re-raise;
\* result is what the caller got; swallowed is TRUE when shutdown() raised;
\* done lists the calls that have ended.
ProbeIdle ==
    [pc |-> "idle", client |-> FALSE, shutdowns |-> 0, pending |-> None,
     result |-> None, swallowed |-> FALSE, done |-> << >>]

ServiceNames == {"filter_reset", "set_child_lock"}
Entries == 1..MaxEntries

\* Before async_setup: no service is registered and no entry is set up.
HassInit ==
    [component |-> "not_setup", services |-> {},
     entries |-> [e \in Entries |-> "not_loaded"]]

Init ==
    /\ client = 1
    /\ created = 1
    /\ shutdowns = [c \in 1..MaxClients |-> 0]
    /\ data = None
    /\ timeout = DEFAULT_TIMEOUT
    /\ last_update = 0
    /\ device_available = TRUE
    /\ observe_task = 0
    /\ watchdog_task = 0
    /\ reconnect_task = 0
    /\ tasks = << >>
    /\ now = 1
    /\ caller = "init"
    /\ shutdown_calls = 0
    /\ cmd = "idle"
    /\ ev = Event("init", 0, None, 0, << >>, {})
    /\ probe = ProbeIdle
    /\ patch = None
    /\ hass = HassInit

\* ---- async_first_refresh_and_observe -------------------------------------------
FirstRefreshCall ==
    /\ caller = "init"
    /\ caller' = "first_refresh"
    /\ ev' = Event("first_refresh_call", 0, None, 0, << >>, {})
    /\ UNCHANGED << probe, patch, hass, cmd, client, created, shutdowns, data, timeout, last_update,
                    device_available, observe_task, watchdog_task,
                    reconnect_task, tasks, now, shutdown_calls >>

FirstRefreshEffects == << "timeout", "mark_available", "set_data", "last_update", "start_observing" >>

\* mutant: the time of the first refresh is not recorded (line 214 missing)
FirstRefreshOkNoStamp(S, h) ==
    /\ caller = "first_refresh"
    /\ Room(2)
    /\ LET so == StartObserving(tasks, observe_task, watchdog_task) IN
        /\ timeout' = h
        /\ device_available' = MarkAvailable(device_available)
        /\ data' = SetUpdatedData(data, S)
        /\ tasks' = so.tasks
        /\ observe_task' = so.observe_task
        /\ watchdog_task' = so.watchdog_task
        /\ ev' = Event("first_refresh_ok", 0, S, h, FirstRefreshEffects,
                       MarkAvailableLogs(device_available))
    /\ caller' = "running"
    /\ UNCHANGED << probe, patch, hass, cmd, client, created, shutdowns, reconnect_task, now,
                    shutdown_calls, last_update >>

FirstRefreshOk(S, h) ==
    /\ caller = "first_refresh"
    /\ Room(2)
    /\ LET so == StartObserving(tasks, observe_task, watchdog_task) IN
        /\ timeout' = h
        /\ device_available' = MarkAvailable(device_available)
        /\ data' = SetUpdatedData(data, S)
        /\ last_update' = now
        /\ tasks' = so.tasks
        /\ observe_task' = so.observe_task
        /\ watchdog_task' = so.watchdog_task
        /\ ev' = Event("first_refresh_ok", 0, S, h, FirstRefreshEffects,
                       MarkAvailableLogs(device_available))
    /\ caller' = "running"
    /\ UNCHANGED << probe, patch, hass, cmd, client, created, shutdowns, reconnect_task, now, shutdown_calls >>

\* mutant: the failure is logged and start-up goes on
FirstRefreshFailContinues ==
    /\ caller = "first_refresh"
    /\ Room(2)
    /\ LET so == StartObserving(tasks, observe_task, watchdog_task) IN
        /\ tasks' = so.tasks
        /\ observe_task' = so.observe_task
        /\ watchdog_task' = so.watchdog_task
    /\ device_available' = MarkUnavailable(device_available)
    /\ last_update' = now
    /\ caller' = "running"
    /\ ev' = Event("first_refresh_fail", 0, None, 0, << "mark_unavailable" >>,
                   MarkUnavailableLogs(device_available))
    /\ UNCHANGED << probe, patch, hass, cmd, client, created, shutdowns, data, timeout, reconnect_task,
                    now, shutdown_calls >>

FirstRefreshFail ==
    /\ caller = "first_refresh"
    /\ device_available' = MarkUnavailable(device_available)
    /\ caller' = "not_ready"
    /\ ev' = Event("first_refresh_fail", 0, None, 0, << "mark_unavailable", "raise_not_ready" >>,
                   MarkUnavailableLogs(device_available))
    /\ UNCHANGED << probe, patch, hass, cmd, client, created, shutdowns, data, timeout, last_update,
                    observe_task, watchdog_task, reconnect_task, tasks, now,
                    shutdown_calls >>

\* ---- _async_observe_status ----------------------------------------------------
\* First run of the task: self.client.observe_status() is called on the client
\* held at that moment and the task waits for the stream's first item.
ObserveStart(t) ==
    /\ At(t, "observe", "start")
    /\ tasks' = [tasks EXCEPT ![t] = Task("observe", "iter", client, 0)]
    /\ ev' = Event("observe_start", t, None, 0, << >>, {})
    /\ UNCHANGED << probe, patch, hass, cmd, client, created, shutdowns, data, timeout, last_update,
                    device_available, observe_task, watchdog_task,
                    reconnect_task, now, caller, shutdown_calls >>

ObserveItemEffects == << "last_update", "mark_available", "set_data" >>

\* mutant: the item is published but the time of the update is not recorded
ObserveItemNoStamp(t, S) ==
    /\ At(t, "observe", "iter")
    /\ device_available' = MarkAvailable(device_available)
    /\ data' = SetUpdatedData(data, S)
    /\ tasks' = [tasks EXCEPT ![t].got = 1]
    /\ ev' = Event("observe_item", t, S, 0, ObserveItemEffects,
                   MarkAvailableLogs(device_available))
    /\ UNCHANGED << probe, patch, hass, cmd, client, created, shutdowns, timeout, last_update,
                    observe_task, watchdog_task, reconnect_task, now, caller,
                    shutdown_calls >>

\* The stream yields an item: lines 136-138, no await between them.
ObserveItem(t, S) ==
    /\ At(t, "observe", "iter")
    /\ last_update' = now
    /\ device_available' = MarkAvailable(device_available)
    /\ data' = SetUpdatedData(data, S)
    /\ tasks' = [tasks EXCEPT ![t].got = 1]
    /\ ev' = Event("observe_item", t, S, 0, ObserveItemEffects,
                   MarkAvailableLogs(device_available))
    /\ UNCHANGED << probe, patch, hass, cmd, client, created, shutdowns, timeout, observe_task,
                    watchdog_task, reconnect_task, now, caller,
                    shutdown_calls >>

\* mutant: the guard is awaited inside the observation task instead of being
\* scheduled as a task of its own
ObserveFailInlineGuard(t) ==
    /\ At(t, "observe", "iter")
    /\ Room(1)
    /\ device_available' = MarkUnavailable(device_available)
    /\ LET ar == AsyncReconnect(Finish(tasks, t), reconnect_task) IN
        /\ tasks' = ar.tasks
        /\ reconnect_task' = ar.reconnect_task
    /\ ev' = Event("observe_fail", t, None, 0, << "mark_unavailable", "async_reconnect" >>,
                   MarkUnavailableLogs(device_available))
    /\ UNCHANGED << probe, patch, hass, cmd, client, created, shutdowns, data, timeout, last_update,
                    observe_task, watchdog_task, now, caller, shutdown_calls >>

\* mutant: the cancellation of the stream is caught by the handler of
\* lines 141-147 like any other exception
ObserveFailCatchesCancel(t) ==
    /\ t \in TaskIds
    /\ tasks[t].kind = "observe" /\ tasks[t].pc \in {"iter", "cancelled"}
    /\ Room(1)
    /\ device_available' = MarkUnavailable(device_available)
    /\ tasks' = CreateTask(Finish(tasks, t), "guard", tasks[t].cl)
    /\ ev' = Event("observe_fail", t, None, 0, << "mark_unavailable", "create_guard_task" >>,
                   MarkUnavailableLogs(device_available))
    /\ UNCHANGED << probe, patch, hass, cmd, client, created, shutdowns, data, timeout, last_update,
                    observe_task, watchdog_task, reconnect_task, now, caller,
                    shutdown_calls >>

\* The stream raises an exception: lines 141-147. The guard is scheduled as a
\* task of its own and the observation task returns.
ObserveFail(t) ==
    /\ At(t, "observe", "iter")
    /\ Room(1)
    /\ device_available' = MarkUnavailable(device_available)
    /\ tasks' = CreateTask(Finish(tasks, t), "guard", tasks[t].cl)
    /\ ev' = Event("observe_fail", t, None, 0, << "mark_unavailable", "create_guard_task" >>,
                   MarkUnavailableLogs(device_available))
    /\ UNCHANGED << probe, patch, hass, cmd, client, created, shutdowns, data, timeout, last_update,
                    observe_task, watchdog_task, reconnect_task, now, caller,
                    shutdown_calls >>

\* The stream ends without raising: the async for loop is left normally and
\* the coroutine returns; no except clause runs.
ObserveEnd(t) ==
    /\ At(t, "observe", "iter")
    /\ tasks' = Finish(tasks, t)
    /\ ev' = Event("observe_end", t, None, 0, << >>, {})
    /\ UNCHANGED << probe, patch, hass, cmd, client, created, shutdowns, data, timeout, last_update,
                    device_available, observe_task, watchdog_task,
                    reconnect_task, now, caller, shutdown_calls >>

\* The task that runs hass.async_create_task(self._async_reconnect())
GuardRun(t) ==
    /\ At(t, "guard", "start")
    /\ AsyncReconnect(tasks, reconnect_task).spawned => Room(1)
    /\ LET ar == AsyncReconnect(Finish(tasks, t), reconnect_task) IN
        /\ tasks' = ar.tasks
        /\ reconnect_task' = ar.reconnect_task
        /\ ev' = Event("guard", t, None, 0,
                       IF ar.spawned THEN << "create_reconnect_task" >> ELSE << >>, {})
    /\ UNCHANGED << probe, patch, hass, cmd, client, created, shutdowns, data, timeout, last_update,
                    device_available, observe_task, watchdog_task, now, caller,
                    shutdown_calls >>

\* ---- _async_watchdog ----------------------------------------------------------
WatchdogStart(t) ==
    /\ At(t, "watchdog", "start")
    /\ tasks' = [tasks EXCEPT ![t] = Task("watchdog", "sleep", 0, SleepUntil(now, timeout))]
    /\ ev' = Event("watchdog_start", t, None, 0, << >>, {})
    /\ UNCHANGED << probe, patch, hass, cmd, client, created, shutdowns, data, timeout, last_update,
                    device_available, observe_task, watchdog_task,
                    reconnect_task, now, caller, shutdown_calls >>

\* mutant: the watchdog waits for the reconnect task it started before it
\* sleeps again
WatchdogWakeAwaitsBody(t) ==
    /\ At(t, "watchdog", "sleep")
    /\ now >= tasks[t].wake
    /\ WatchdogStale(last_update, now, timeout) => Room(1)
    /\ LET again == [tasks EXCEPT ![t] = Task("watchdog", "sleep", 0, SleepUntil(now, timeout))]
           wait == [tasks EXCEPT ![t] = Task("watchdog", "await_reconnect", 0, 0)]
           ar == AsyncReconnect(wait, reconnect_task)
       IN  IF WatchdogStale(last_update, now, timeout)
           THEN /\ device_available' = MarkUnavailable(device_available)
                /\ tasks' = ar.tasks
                /\ reconnect_task' = ar.reconnect_task
                /\ ev' = Event("watchdog_fire", t, None, 0,
                               << "mark_unavailable", "async_reconnect" >>
                                 \o (IF ar.spawned THEN << "create_reconnect_task" >> ELSE << >>),
                               MarkUnavailableLogs(device_available) \cup {"warning_no_updates"})
           ELSE /\ tasks' = again
                /\ ev' = Event("watchdog_idle", t, None, 0, << "sleep" >>, {})
                /\ UNCHANGED << probe, patch, hass, device_available, reconnect_task >>
    /\ UNCHANGED << probe, patch, hass, cmd, client, created, shutdowns, data, timeout, last_update,
                    observe_task, watchdog_task, now, caller, shutdown_calls >>

\* mutant: the watchdog returns after it has triggered one reconnect (no
\* while True around lines 152-162)
WatchdogWakeOneShot(t) ==
    /\ At(t, "watchdog", "sleep")
    /\ now >= tasks[t].wake
    /\ WatchdogStale(last_update, now, timeout) => Room(1)
    /\ LET again == [tasks EXCEPT ![t] = Task("watchdog", "sleep", 0, SleepUntil(now, timeout))]
           ar == AsyncReconnect(Finish(tasks, t), reconnect_task)
       IN  IF WatchdogStale(last_update, now, timeout)
           THEN /\ device_available' = MarkUnavailable(device_available)
                /\ tasks' = ar.tasks
                /\ reconnect_task' = ar.reconnect_task
                /\ ev' = Event("watchdog_fire", t, None, 0,
                               << "mark_unavailable", "async_reconnect" >>
                                 \o (IF ar.spawned THEN << "create_reconnect_task" >> ELSE << >>),
                               MarkUnavailableLogs(device_available) \cup {"warning_no_updates"})
           ELSE /\ tasks' = again
                /\ ev' = Event("watchdog_idle", t, None, 0, << "sleep" >>, {})
                /\ UNCHANGED << probe, patch, hass, device_available, reconnect_task >>
    /\ UNCHANGED << probe, patch, hass, cmd, client, created, shutdowns, data, timeout, last_update,
                    observe_task, watchdog_task, now, caller, shutdown_calls >>

\* mutant: the watchdog returns once it has triggered a reconnect
WatchdogWakeEndsAfterFire(t) ==
    /\ At(t, "watchdog", "sleep")
    /\ now >= tasks[t].wake
    /\ WatchdogStale(last_update, now, timeout) => Room(1)
    /\ LET again == [tasks EXCEPT ![t] = Task("watchdog", "sleep", 0, SleepUntil(now, timeout))]
           ar == AsyncReconnect(Finish(tasks, t), reconnect_task)
       IN  IF WatchdogStale(last_update, now, timeout)
           THEN /\ device_available' = MarkUnavailable(device_available)
                /\ tasks' = ar.tasks
                /\ reconnect_task' = ar.reconnect_task
                /\ ev' = Event("watchdog_fire", t, None, 0,
                               << "mark_unavailable", "async_reconnect" >>
                                 \o (IF ar.spawned THEN << "create_reconnect_task" >> ELSE << >>),
                               MarkUnavailableLogs(device_available) \cup {"warning_no_updates"})
           ELSE /\ tasks' = again
                /\ ev' = Event("watchdog_idle", t, None, 0, << "sleep" >>, {})
                /\ UNCHANGED << device_available, reconnect_task >>
    /\ UNCHANGED << probe, patch, hass, cmd, client, created, shutdowns, data, timeout, last_update,
                    observe_task, watchdog_task, now, caller, shutdown_calls >>

\* The sleep is over: lines 153-162 and the next call of asyncio.sleep.
\* await self._async_reconnect() runs the guard inside this step: the guard has
\* no await of its own, it creates the reconnect task and returns.
WatchdogWake(t) ==
    /\ At(t, "watchdog", "sleep")
    /\ now >= tasks[t].wake
    /\ WatchdogStale(last_update, now, timeout) => Room(1)
    /\ LET again == [tasks EXCEPT ![t] = Task("watchdog", "sleep", 0, SleepUntil(now, timeout))]
           ar == AsyncReconnect(again, reconnect_task)
       IN  IF WatchdogStale(last_update, now, timeout)
           THEN /\ device_available' = MarkUnavailable(device_available)
                /\ tasks' = ar.tasks
                /\ reconnect_task' = ar.reconnect_task
                /\ ev' = Event("watchdog_fire", t, None, 0,
                               << "mark_unavailable", "async_reconnect" >>
                                 \o (IF ar.spawned THEN << "create_reconnect_task" >> ELSE << >>)
                                 \o << "sleep" >>,
                               MarkUnavailableLogs(device_available) \cup {"warning_no_updates"})
           ELSE /\ tasks' = again
                /\ ev' = Event("watchdog_idle", t, None, 0, << "sleep" >>, {})
                /\ UNCHANGED << probe, patch, hass, device_available, reconnect_task >>
    /\ UNCHANGED << probe, patch, hass, cmd, client, created, shutdowns, data, timeout, last_update,
                    observe_task, watchdog_task, now, caller, shutdown_calls >>

\* ---- _do_reconnect (the body) -------------------------------------------------
\* mutant: the old client is not shut down before the new connect
BodyStartSkipsShutdown(t) ==
    /\ At(t, "reconnect", "start")
    /\ tasks' = [tasks EXCEPT ![t] = Task("reconnect", "shutdown", client, 0)]
    /\ ev' = Event("reconnect_start", t, None, 0, << >>, {})
    /\ UNCHANGED << probe, patch, hass, cmd, client, created, shutdowns, data, timeout, last_update,
                    device_available, observe_task, watchdog_task,
                    reconnect_task, now, caller, shutdown_calls >>

\* mutant: the connect is started first, the old client is left for later
BodyStartConnectsFirst(t) ==
    /\ At(t, "reconnect", "start")
    /\ tasks' = [tasks EXCEPT ![t] = Task("reconnect", "connect", client, 0)]
    /\ ev' = Event("reconnect_start", t, None, 0, << "create_client" >>, {})
    /\ UNCHANGED << probe, patch, hass, cmd, client, created, shutdowns, data, timeout, last_update,
                    device_available, observe_task, watchdog_task,
                    reconnect_task, now, caller, shutdown_calls >>

\* First run of the task: self.client.shutdown() is called on the client held
\* at that moment and awaited.
BodyStart(t) ==
    /\ At(t, "reconnect", "start")
    /\ tasks' = [tasks EXCEPT ![t] = Task("reconnect", "shutdown", client, 0)]
    /\ shutdowns' = [shutdowns EXCEPT ![client] = @ + 1]
    /\ ev' = Event("reconnect_start", t, None, 0, << "client_shutdown" >>, {})
    /\ UNCHANGED << probe, patch, hass, cmd, client, created, data, timeout, last_update,
                    device_available, observe_task, watchdog_task,
                    reconnect_task, now, caller, shutdown_calls >>

\* mutant: an error of the old client's shutdown ends the attempt like a
\* failed connect
BodyShutdownReturnErrorAborts(t, ok) ==
    /\ At(t, "reconnect", "shutdown")
    /\ tasks' = IF ok THEN [tasks EXCEPT ![t].pc = "connect"] ELSE Finish(tasks, t)
    /\ ev' = Event(IF ok THEN "reconnect_shutdown_ok" ELSE "reconnect_shutdown_error",
                   t, None, 0, IF ok THEN << "create_client" >> ELSE << >>,
                   IF ok THEN {} ELSE {"exception_reconnect_failed"})
    /\ UNCHANGED << probe, patch, hass, cmd, client, created, shutdowns, data, timeout, last_update,
                    device_available, observe_task, watchdog_task,
                    reconnect_task, now, caller, shutdown_calls >>

\* client.shutdown() returned or raised (contextlib.suppress(Exception)):
\* async_create_client is called and awaited.
BodyShutdownReturn(t, ok) ==
    /\ At(t, "reconnect", "shutdown")
    /\ tasks' = [tasks EXCEPT ![t].pc = "connect"]
    /\ ev' = Event(IF ok THEN "reconnect_shutdown_ok" ELSE "reconnect_shutdown_error",
                   t, None, 0, << "create_client" >>, {})
    /\ UNCHANGED << probe, patch, hass, cmd, client, created, shutdowns, data, timeout, last_update,
                    device_available, observe_task, watchdog_task,
                    reconnect_task, now, caller, shutdown_calls >>

\* async_create_client returned a new client: it is stored and its
\* get_status() is called and awaited.
BodyConnectOk(t) ==
    /\ At(t, "reconnect", "connect")
    /\ created < MaxClients
    /\ created' = created + 1
    /\ client' = created + 1
    /\ tasks' = [tasks EXCEPT ![t].pc = "get_status"]
    /\ ev' = Event("reconnect_connect_ok", t, None, 0, << "set_client", "get_status" >>,
                   {"info_reconnected"})
    /\ UNCHANGED << probe, patch, hass, cmd, shutdowns, data, timeout, last_update, device_available,
                    observe_task, watchdog_task, reconnect_task, now, caller,
                    shutdown_calls >>

\* mutant: after a failed connect the body waits for a retry signal that
\* nothing sends
BodyConnectFailNeverReturns(t) ==
    /\ At(t, "reconnect", "connect")
    /\ tasks' = [tasks EXCEPT ![t].pc = "wait_retry"]
    /\ ev' = Event("reconnect_connect_fail", t, None, 0, << >>, {"exception_reconnect_failed"})
    /\ UNCHANGED << probe, patch, hass, cmd, client, created, shutdowns, data, timeout, last_update,
                    device_available, observe_task, watchdog_task,
                    reconnect_task, now, caller, shutdown_calls >>

\* async_create_client raised (an error or the 25 s timeout): lines 198-199.
BodyConnectFail(t) ==
    /\ At(t, "reconnect", "connect")
    /\ tasks' = Finish(tasks, t)
    /\ ev' = Event("reconnect_connect_fail", t, None, 0, << >>, {"exception_reconnect_failed"})
    /\ UNCHANGED << probe, patch, hass, cmd, client, created, shutdowns, data, timeout, last_update,
                    device_available, observe_task, watchdog_task,
                    reconnect_task, now, caller, shutdown_calls >>

\* mutant: the poll-interval hint of the new client is not stored
BodyStatusOkKeepsHint(t, S, h) ==
    /\ At(t, "reconnect", "get_status")
    /\ Room(2)
    /\ LET so == StartObserving(Finish(tasks, t), observe_task, watchdog_task) IN
        /\ device_available' = MarkAvailable(device_available)
        /\ data' = SetUpdatedData(data, S)
        /\ tasks' = so.tasks
        /\ observe_task' = so.observe_task
        /\ watchdog_task' = so.watchdog_task
        /\ ev' = Event("reconnect_status_ok", t, S, h,
                       << "mark_available", "set_data", "start_observing" >>,
                       MarkAvailableLogs(device_available))
    /\ UNCHANGED << probe, patch, hass, cmd, client, created, shutdowns, timeout, last_update,
                    reconnect_task, now, caller, shutdown_calls >>

\* mutant: after a successful status fetch the old pair is left running
BodyStatusOkNoRestart(t, S, h) ==
    /\ At(t, "reconnect", "get_status")
    /\ timeout' = h
    /\ device_available' = MarkAvailable(device_available)
    /\ data' = SetUpdatedData(data, S)
    /\ tasks' = Finish(tasks, t)
    /\ ev' = Event("reconnect_status_ok", t, S, h,
                   << "timeout", "mark_available", "set_data" >>,
                   MarkAvailableLogs(device_available))
    /\ UNCHANGED << probe, patch, hass, cmd, client, created, shutdowns, last_update, reconnect_task,
                    observe_task, watchdog_task, now, caller, shutdown_calls >>

\* get_status() of the new client returned (S, h): lines 185-187, then 195.
BodyStatusOk(t, S, h) ==
    /\ At(t, "reconnect", "get_status")
    /\ Room(2)
    /\ LET so == StartObserving(Finish(tasks, t), observe_task, watchdog_task) IN
        /\ timeout' = h
        /\ device_available' = MarkAvailable(device_available)
        /\ data' = SetUpdatedData(data, S)
        /\ tasks' = so.tasks
        /\ observe_task' = so.observe_task
        /\ watchdog_task' = so.watchdog_task
        /\ ev' = Event("reconnect_status_ok", t, S, h,
                       << "timeout", "mark_available", "set_data", "start_observing" >>,
                       MarkAvailableLogs(device_available))
    /\ UNCHANGED << probe, patch, hass, cmd, client, created, shutdowns, last_update, reconnect_task,
                    now, caller, shutdown_calls >>

\* mutant: a failed status fetch ends the attempt before the pair is restarted
BodyStatusFailNoRestart(t) ==
    /\ At(t, "reconnect", "get_status")
    /\ device_available' = MarkUnavailable(device_available)
    /\ tasks' = Finish(tasks, t)
    /\ ev' = Event("reconnect_status_fail", t, None, 0, << "mark_unavailable" >>,
                   MarkUnavailableLogs(device_available))
    /\ UNCHANGED << probe, patch, hass, cmd, client, created, shutdowns, data, timeout, last_update,
                    observe_task, watchdog_task, reconnect_task, now, caller,
                    shutdown_calls >>

\* get_status() of the new client raised: lines 188-193, then 195.
BodyStatusFail(t) ==
    /\ At(t, "reconnect", "get_status")
    /\ Room(2)
    /\ LET so == StartObserving(Finish(tasks, t), observe_task, watchdog_task) IN
        /\ device_available' = MarkUnavailable(device_available)
        /\ tasks' = so.tasks
        /\ observe_task' = so.observe_task
        /\ watchdog_task' = so.watchdog_task
        /\ ev' = Event("reconnect_status_fail", t, None, 0,
                       << "mark_unavailable", "start_observing" >>,
                       MarkUnavailableLogs(device_available))
    /\ UNCHANGED << probe, patch, hass, cmd, client, created, shutdowns, data, timeout, last_update,
                    reconnect_task, now, caller, shutdown_calls >>

\* ---- async_shutdown -------------------------------------------------------------
\* Lines 231-233: client.shutdown() is called only on a client that is not None
\* (c = 0 stands for None).
ClientShutdown(sh, c) == IF c # 0 THEN [sh EXCEPT ![c] = @ + 1] ELSE sh

\* mutant: the reconnect task is neither cancelled nor forgotten
ShutdownCallKeepsReconnect ==
    /\ caller \in {"init", "running", "stopped"}
    /\ shutdown_calls < MaxShutdownCalls
    /\ shutdown_calls' = shutdown_calls + 1
    /\ tasks' = Cancel(Cancel(tasks, observe_task), watchdog_task)
    /\ observe_task' = 0
    /\ watchdog_task' = 0
    /\ shutdowns' = ClientShutdown(shutdowns, client)
    /\ caller' = "shutting_down"
    /\ ev' = Event("shutdown_call", 0, None, 0, << "cancel_tasks", "client_shutdown" >>, {})
    /\ UNCHANGED << probe, patch, hass, cmd, client, created, data, timeout, last_update,
                    device_available, now, reconnect_task >>

\* Lines 219-233 up to the await: the three tasks are cancelled, the handles
\* cleared, and client.shutdown() is called and awaited.
ShutdownCall ==
    /\ caller \in {"init", "running", "stopped"}
    /\ shutdown_calls < MaxShutdownCalls
    /\ shutdown_calls' = shutdown_calls + 1
    /\ tasks' = Cancel(Cancel(Cancel(tasks, observe_task), watchdog_task), reconnect_task)
    /\ observe_task' = 0
    /\ watchdog_task' = 0
    /\ reconnect_task' = 0
    /\ shutdowns' = ClientShutdown(shutdowns, client)
    /\ caller' = "shutting_down"
    /\ ev' = Event("shutdown_call", 0, None, 0, << "cancel_tasks", "client_shutdown" >>, {})
    /\ UNCHANGED << probe, patch, hass, cmd, client, created, data, timeout, last_update,
                    device_available, now >>

\* mutant: the shutdown forgets the last status
ShutdownReturnClearsCache(ok) ==
    /\ caller = "shutting_down"
    /\ caller' = "stopped"
    /\ data' = None
    /\ ev' = Event(IF ok THEN "shutdown_ok" ELSE "shutdown_error_suppressed",
                   0, None, 0, << >>, {})
    /\ UNCHANGED << probe, patch, hass, cmd, client, created, shutdowns, timeout, last_update,
                    device_available, observe_task, watchdog_task,
                    reconnect_task, tasks, now, shutdown_calls >>

\* client.shutdown() returned or raised (contextlib.suppress(Exception))
ShutdownReturn(ok) ==
    /\ caller = "shutting_down"
    /\ caller' = "stopped"
    /\ ev' = Event(IF ok THEN "shutdown_ok" ELSE "shutdown_error_suppressed",
                   0, None, 0, << >>, {})
    /\ UNCHANGED << probe, patch, hass, cmd, client, created, shutdowns, data, timeout, last_update,
                    device_available, observe_task, watchdog_task,
                    reconnect_task, tasks, now, shutdown_calls >>

\* ---- async_set_control_value / async_set_control_values -------------------------
\* async_set_control_values(values): the keyword argument data of the one call
\* client.set_control_values(data=values)
SetControlValues(values) == values

\* mutant: the key and the value are sent as two entries of their own
SetControlValueAsPair(key, value) ==
    SetControlValues([key |-> key, value |-> value])

\* async_set_control_value(key, value): async_set_control_values({key: value})
SetControlValue(key, value) == SetControlValues(key :> value)

\* mutant: the error is wrapped the way _async_update_data wraps its own
WriteRaisesWrapped(e) == "UpdateFailed"

\* What the caller of async_set_control_values sees when the client's write
\* raises e: there is no try around the await.
WriteRaises(e) == e

\* The record of a step of the command path. arg: what the entity passed;
\* item: the map the client was given; cl: the client that was given it;
\* error: what the client raised; raised: what the caller got.
CommandEvent(op, arg, sent, cl, error, raised) ==
    [op |-> op, task |-> 0, item |-> sent, hint |-> 0,
     seq |-> IF cl # 0 THEN << "client_set_control_values" >> ELSE << >>,
     logs |-> {}, arg |-> arg, cl |-> cl, error |-> error, raised |-> raised]

\* Entities hold the coordinator from the end of a successful set-up.
SetControlValueCall(key, value) ==
    /\ caller = "running"
    /\ cmd = "idle"
    /\ cmd' = "writing"
    /\ ev' = CommandEvent("set_control_value", << key, value >>,
                          SetControlValue(key, value), client, "", "")
    /\ UNCHANGED << probe, patch, hass, client, created, shutdowns, data, timeout, last_update,
                    device_available, observe_task, watchdog_task,
                    reconnect_task, tasks, now, caller, shutdown_calls >>

\* mutant: the coordinator patches its cache with the values it sends
SetControlValuesCallPatchesCache(values) ==
    /\ caller = "running"
    /\ cmd = "idle"
    /\ cmd' = "writing"
    /\ data' = values
    /\ ev' = CommandEvent("set_control_values", values,
                          SetControlValues(values), client, "", "")
    /\ UNCHANGED << probe, patch, hass, client, created, shutdowns, timeout, last_update,
                    device_available, observe_task, watchdog_task,
                    reconnect_task, tasks, now, caller, shutdown_calls >>

SetControlValuesCall(values) ==
    /\ caller = "running"
    /\ cmd = "idle"
    /\ cmd' = "writing"
    /\ ev' = CommandEvent("set_control_values", values,
                          SetControlValues(values), client, "", "")
    /\ UNCHANGED << probe, patch, hass, client, created, shutdowns, data, timeout, last_update,
                    device_available, observe_task, watchdog_task,
                    reconnect_task, tasks, now, caller, shutdown_calls >>

\* client.set_control_values returned
WriteReturn ==
    /\ cmd = "writing"
    /\ cmd' = "idle"
    /\ ev' = CommandEvent("write_ok", None, None, 0, "", "")
    /\ UNCHANGED << probe, patch, hass, client, created, shutdowns, data, timeout, last_update,
                    device_available, observe_task, watchdog_task,
                    reconnect_task, tasks, now, caller, shutdown_calls >>

\* client.set_control_values raised e
WriteFail(e) ==
    /\ cmd = "writing"
    /\ cmd' = "idle"
    /\ ev' = CommandEvent("write_raised", None, None, 0, e, WriteRaises(e))
    /\ UNCHANGED << probe, patch, hass, client, created, shutdowns, data, timeout, last_update,
                    device_available, observe_task, watchdog_task,
                    reconnect_task, tasks, now, caller, shutdown_calls >>

\* ---- _async_update_data (the fetch a refresh request runs) ----------------------
\* Line 105 up to the await: get_status() is called on the client held now.
UpdateCall ==
    /\ caller = "running"
    /\ cmd = "idle"
    /\ cmd' = "fetching"
    /\ ev' = Event("update_call", 0, None, 0, << "get_status" >>, {})
    /\ UNCHANGED << probe, patch, hass, client, created, shutdowns, data, timeout, last_update,
                    device_available, observe_task, watchdog_task,
                    reconnect_task, tasks, now, caller, shutdown_calls >>

\* mutant: the hint a refresh returns is not stored
UpdateOkKeepsHint(S, h) ==
    /\ cmd = "fetching"
    /\ cmd' = "idle"
    /\ device_available' = MarkAvailable(device_available)
    /\ ev' = Event("update_ok", 0, S, h, << "timeout", "mark_available", "return_status" >>,
                   MarkAvailableLogs(device_available))
    /\ UNCHANGED << probe, patch, hass, client, created, shutdowns, data, last_update, observe_task,
                    watchdog_task, reconnect_task, tasks, now, caller,
                    shutdown_calls, timeout >>

\* mutant: the fetch publishes the status itself, as the observation loop does
UpdateOkWritesCache(S, h) ==
    /\ cmd = "fetching"
    /\ cmd' = "idle"
    /\ timeout' = h
    /\ device_available' = MarkAvailable(device_available)
    /\ data' = SetUpdatedData(data, S)
    /\ ev' = Event("update_ok", 0, S, h, << "timeout", "mark_available", "return_status" >>,
                   MarkAvailableLogs(device_available))
    /\ UNCHANGED << probe, patch, hass, client, created, shutdowns, last_update, observe_task,
                    watchdog_task, reconnect_task, tasks, now, caller,
                    shutdown_calls >>

\* get_status() returned (S, h): lines 106-108. The status is returned to the
\* caller (the item of the step); the method assigns neither self.data nor
\* _last_update.
UpdateOk(S, h) ==
    /\ cmd = "fetching"
    /\ cmd' = "idle"
    /\ timeout' = h
    /\ device_available' = MarkAvailable(device_available)
    /\ ev' = Event("update_ok", 0, S, h, << "timeout", "mark_available", "return_status" >>,
                   MarkAvailableLogs(device_available))
    /\ UNCHANGED << probe, patch, hass, client, created, shutdowns, data, last_update, observe_task,
                    watchdog_task, reconnect_task, tasks, now, caller,
                    shutdown_calls >>

\* get_status() raised: lines 109-112, UpdateFailed is raised to the refresh.
UpdateFail ==
    /\ cmd = "fetching"
    /\ cmd' = "idle"
    /\ device_available' = MarkUnavailable(device_available)
    /\ ev' = Event("update_fail", 0, None, 0, << "mark_unavailable", "raise_update_failed" >>,
                   MarkUnavailableLogs(device_available))
    /\ UNCHANGED << probe, patch, hass, client, created, shutdowns, data, timeout, last_update,
                    observe_task, watchdog_task, reconnect_task, tasks, now,
                    caller, shutdown_calls >>

\* ---- the clock ------------------------------------------------------------------
Tick ==
    /\ now < MaxTime
    /\ now' = now + 1
    /\ ev' = Event("tick", 0, None, 0, << >>, {})
    /\ UNCHANGED << probe, patch, hass, cmd, client, created, shutdowns, data, timeout, last_update,
                    device_available, observe_task, watchdog_task,
                    reconnect_task, tasks, caller, shutdown_calls >>

Next ==
    \/ FirstRefreshCall
    \/ \E S \in Statuses, h \in Hints : FirstRefreshOk(S, h)
    \/ FirstRefreshFail
    \/ \E t \in TaskIds : ObserveStart(t)
    \/ \E t \in TaskIds, S \in Statuses : ObserveItem(t, S)
    \/ \E t \in TaskIds : ObserveFail(t)
    \/ \E t \in TaskIds : ObserveEnd(t)
    \/ \E t \in TaskIds : GuardRun(t)
    \/ \E t \in TaskIds : WatchdogStart(t)
    \/ \E t \in TaskIds : WatchdogWake(t)
    \/ \E t \in TaskIds : BodyStart(t)
    \/ \E t \in TaskIds, ok \in BOOLEAN : BodyShutdownReturn(t, ok)
    \/ \E t \in TaskIds : BodyConnectOk(t)
    \/ \E t \in TaskIds : BodyConnectFail(t)
    \/ \E t \in TaskIds, S \in Statuses, h \in Hints : BodyStatusOk(t, S, h)
    \/ \E t \in TaskIds : BodyStatusFail(t)
    \/ ShutdownCall
    \/ \E ok \in BOOLEAN : ShutdownReturn(ok)
    \/ Tick

Spec == Init /\ [][Next]_vars

\* The command path beside start-up, the observation loop, reconnects and
\* shutdown. The command path reads no clock: the clock stands still here and
\* reconnects are triggered by stream failures.
NextCmd ==
    \/ FirstRefreshCall
    \/ \E S \in Statuses, h \in Hints : FirstRefreshOk(S, h)
    \/ FirstRefreshFail
    \/ \E t \in TaskIds : ObserveStart(t)
    \/ \E t \in TaskIds, S \in Statuses : ObserveItem(t, S)
    \/ \E t \in TaskIds : ObserveFail(t)
    \/ \E t \in TaskIds : GuardRun(t)
    \/ \E t \in TaskIds : BodyStart(t)
    \/ \E t \in TaskIds, ok \in BOOLEAN : BodyShutdownReturn(t, ok)
    \/ \E t \in TaskIds : BodyConnectOk(t)
    \/ \E t \in TaskIds : BodyConnectFail(t)
    \/ \E t \in TaskIds, S \in Statuses, h \in Hints : BodyStatusOk(t, S, h)
    \/ \E t \in TaskIds : BodyStatusFail(t)
    \/ ShutdownCall
    \/ \E ok \in BOOLEAN : ShutdownReturn(ok)
    \/ \E key \in ControlKeys, value \in ControlVals : SetControlValueCall(key, value)
    \/ \E values \in ControlMaps : SetControlValuesCall(values)
    \/ WriteReturn
    \/ \E e \in WriteErrors : WriteFail(e)

SpecCmd == Init /\ [][NextCmd]_vars

\* ---- the running supervisor over unbounded time --------------------------------
\* The status and the hint the device reports in the runs below.
LiveStatuses == { [pwr |-> "1"] }
LiveHints == {1}

\* The clock of a run that never ends. The code reads the clock only in
\* differences (line 154) and in sleeps (line 152), so once now has reached
\* MaxTime all time stamps are moved back by one instead: differences are
\* kept, except that an age above MaxTime - 1 is recorded as MaxTime - 1,
\* which is above every staleness threshold that LiveHints gives.
TickLive ==
    /\ IF now < MaxTime
       THEN /\ now' = now + 1
            /\ UNCHANGED << probe, patch, hass, last_update, tasks >>
       ELSE /\ now' = now
            /\ last_update' = IF last_update > 1 THEN last_update - 1 ELSE last_update
            /\ tasks' = [t \in TaskIds |->
                           IF tasks[t].wake > 1
                           THEN [tasks[t] EXCEPT !.wake = @ - 1] ELSE tasks[t]]
    /\ ev' = Event("tick", 0, None, 0, << >>, {})
    /\ UNCHANGED << probe, patch, hass, cmd, client, created, shutdowns, data, timeout,
                    device_available, observe_task, watchdog_task,
                    reconnect_task, caller, shutdown_calls >>

\* The stream of a client that has been shut down yields no further item (it
\* may stay open and silent, or raise).
ObserveItemLive(t, S) ==
    /\ At(t, "observe", "iter")
    /\ shutdowns[tasks[t].cl] = 0
    /\ ObserveItem(t, S)

\* The supervisor after a successful start-up, with no shutdown.
NextLive ==
    \/ FirstRefreshCall
    \/ \E S \in LiveStatuses, h \in LiveHints : FirstRefreshOk(S, h)
    \/ \E t \in TaskIds : ObserveStart(t)
    \/ \E t \in TaskIds, S \in LiveStatuses : ObserveItemLive(t, S)
    \/ \E t \in TaskIds : ObserveFail(t)
    \/ \E t \in TaskIds : GuardRun(t)
    \/ \E t \in TaskIds : WatchdogStart(t)
    \/ \E t \in TaskIds : WatchdogWake(t)
    \/ \E t \in TaskIds : BodyStart(t)
    \/ \E t \in TaskIds, ok \in BOOLEAN : BodyShutdownReturn(t, ok)
    \/ \E t \in TaskIds : BodyConnectOk(t)
    \/ \E t \in TaskIds : BodyConnectFail(t)
    \/ \E t \in TaskIds, S \in LiveStatuses, h \in LiveHints : BodyStatusOk(t, S, h)
    \/ \E t \in TaskIds : BodyStatusFail(t)
    \/ TickLive

\* The event loop runs every task that is ready, the clock advances, and every
\* call on a client returns or raises. Nothing is assumed of the stream.
FairLive ==
    /\ WF_vars(TickLive)
    /\ WF_vars(\E t \in TaskIds : ObserveStart(t))
    /\ WF_vars(\E t \in TaskIds : GuardRun(t))
    /\ WF_vars(\E t \in TaskIds : WatchdogStart(t))
    /\ WF_vars(\E t \in TaskIds : WatchdogWake(t))
    /\ WF_vars(\E t \in TaskIds : BodyStart(t))
    /\ WF_vars(\E t \in TaskIds, ok \in BOOLEAN : BodyShutdownReturn(t, ok))
    /\ WF_vars(\E t \in TaskIds : BodyConnectOk(t) \/ BodyConnectFail(t))
    /\ WF_vars(\E t \in TaskIds :
                  \/ \E S \in LiveStatuses, h \in LiveHints : BodyStatusOk(t, S, h)
                  \/ BodyStatusFail(t))

SpecLive == Init /\ [][NextLive]_vars /\ FairLive

\* The same supervisor with async_shutdown, which may come at any moment, and
\* a stream that never yields: the life of a reconnect body from its creation
\* to its end.
NextStop ==
    \/ FirstRefreshCall
    \/ \E S \in LiveStatuses, h \in LiveHints : FirstRefreshOk(S, h)
    \/ \E t \in TaskIds : ObserveStart(t)
    \/ \E t \in TaskIds : ObserveFail(t)
    \/ \E t \in TaskIds : GuardRun(t)
    \/ \E t \in TaskIds : WatchdogStart(t)
    \/ \E t \in TaskIds : WatchdogWake(t)
    \/ \E t \in TaskIds : BodyStart(t)
    \/ \E t \in TaskIds, ok \in BOOLEAN : BodyShutdownReturn(t, ok)
    \/ \E t \in TaskIds : BodyConnectOk(t)
    \/ \E t \in TaskIds : BodyConnectFail(t)
    \/ \E t \in TaskIds, S \in LiveStatuses, h \in LiveHints : BodyStatusOk(t, S, h)
    \/ \E t \in TaskIds : BodyStatusFail(t)
    \/ ShutdownCall
    \/ \E ok \in BOOLEAN : ShutdownReturn(ok)
    \/ TickLive

SpecStop == Init /\ [][NextStop]_vars /\ FairLive

\* Refresh requests beside start-up, the watchdog and reconnects: every step
\* that reads or writes the poll-interval hint.
NextFetch ==
    \/ FirstRefreshCall
    \/ \E S \in Statuses, h \in Hints : FirstRefreshOk(S, h)
    \/ FirstRefreshFail
    \/ \E t \in TaskIds : ObserveStart(t)
    \/ \E t \in TaskIds : ObserveFail(t)
    \/ \E t \in TaskIds : GuardRun(t)
    \/ \E t \in TaskIds : WatchdogStart(t)
    \/ \E t \in TaskIds : WatchdogWake(t)
    \/ \E t \in TaskIds : BodyStart(t)
    \/ \E t \in TaskIds, ok \in BOOLEAN : BodyShutdownReturn(t, ok)
    \/ \E t \in TaskIds : BodyConnectOk(t)
    \/ \E t \in TaskIds : BodyConnectFail(t)
    \/ \E t \in TaskIds, S \in Statuses, h \in Hints : BodyStatusOk(t, S, h)
    \/ \E t \in TaskIds : BodyStatusFail(t)
    \/ UpdateCall
    \/ \E S \in Statuses, h \in Hints : UpdateOk(S, h)
    \/ UpdateFail
    \/ Tick

SpecFetch == Init /\ [][NextFetch]_vars

\* ==== properties ===================================================================

\* reconnect bodies (_do_reconnect tasks) that have not finished
RunningBodies == { t \in TaskIds : tasks[t].kind = "reconnect" /\ ~Finished(tasks[t]) }

TasksOfKind(kind) == { t \in TaskIds : tasks[t].kind = kind }

Before(x, y, s) ==
    \E i, j \in 1..Len(s) : i < j /\ s[i] = x /\ s[j] = y

\* C1: at most one reconnect body is unfinished at any time, and a guard run
\* (from the watchdog or from the observation loop's task) that found the
\* reconnect handle set and unfinished created no task.
C1_SingleReconnectBody ==
    /\ Cardinality(RunningBodies) <= 1
    /\ (ev.op \in {"guard", "watchdog_fire"} /\ ~InSeq("create_reconnect_task", ev.seq))
          => /\ reconnect_task # 0
             /\ RunningBodies = {reconnect_task}

\* C1 witness: the watchdog ran the guard while the body that the observation
\* loop's guard task had started was still in flight, and no task was created.
C1_Witness ==
    /\ ev.op = "watchdog_fire"
    /\ ~InSeq("create_reconnect_task", ev.seq)
    /\ Cardinality(RunningBodies) = 1
    /\ \E g \in TasksOfKind("guard") : tasks[g].pc = "done" /\ reconnect_task = g + 1

\* C2: the observation handle and the watchdog handle are both set or both
\* None in every state between task steps.
C2_PairedHandles ==
    (observe_task = 0) <=> (watchdog_task = 0)

\* C2 witness: async_shutdown has cleared a pair that a reconnect had set.
C2_Witness ==
    /\ ev.op = "shutdown_call"
    /\ observe_task = 0 /\ watchdog_task = 0
    /\ Cardinality(TasksOfKind("observe")) >= 2
    /\ Cardinality(TasksOfKind("watchdog")) >= 2

\* C3: after async_first_refresh_and_observe succeeded with (S, h) the cache is
\* S, the hint is h, the device is available, the last-update time is not 0
\* and both tasks are started; no observation or watchdog task exists in any
\* state in which the cache is still None.
C3_FirstRefreshSuccess ==
    /\ ev.op = "first_refresh_ok" =>
          /\ caller = "running"
          /\ data = ev.item /\ data \in Statuses
          /\ timeout = ev.hint /\ timeout \in Hints
          /\ device_available
          /\ last_update # 0 /\ last_update = now
          /\ observe_task # 0 /\ tasks[observe_task] = Task("observe", "start", 0, 0)
          /\ watchdog_task # 0 /\ tasks[watchdog_task] = Task("watchdog", "start", 0, 0)
          /\ observe_task # watchdog_task
          /\ Before("set_data", "start_observing", ev.seq)
    /\ data = None => TasksOfKind("observe") \cup TasksOfKind("watchdog") = {}

C3_Witness ==
    /\ ev.op = "first_refresh_ok"
    /\ data = [pwr |-> "1"]
    /\ timeout = 2
    /\ Len(tasks) = 2

\* C4: after getStatus raised in async_first_refresh_and_observe the call has
\* raised ConfigEntryNotReady, the device is unavailable, no task exists and
\* the cache and the last-update time have their initial values.
C4_FirstRefreshFailure ==
    /\ ev.op = "first_refresh_fail" => caller = "not_ready"
    /\ caller = "not_ready" =>
          /\ ~device_available
          /\ tasks = << >>
          /\ observe_task = 0 /\ watchdog_task = 0 /\ reconnect_task = 0
          /\ data = None
          /\ last_update = 0
          /\ timeout = DEFAULT_TIMEOUT

C4_Witness ==
    /\ ev.op = "first_refresh_fail"
    /\ caller = "not_ready"
    /\ "warning_unavailable" \in ev.logs

\* C5: a step of the observation loop that received an item has set the
\* last-update time to the clock, the flag to true and the cache to the item,
\* in that order, within the step.
C5_ObserveItem ==
    ev.op = "observe_item" =>
        /\ last_update = now
        /\ device_available
        /\ data = ev.item
        /\ ev.seq = << "last_update", "mark_available", "set_data" >>
        /\ tasks[ev.task].kind = "observe" /\ tasks[ev.task].pc = "iter"

\* C5 witness: an item replaced a different cached map and brought the device
\* back online, later than the first refresh.
C5_Witness ==
    /\ ev.op = "observe_item"
    /\ "info_back_online" \in ev.logs
    /\ data = [pwr |-> "0", mode |-> "AG"]
    /\ last_update > 1

\* C6: the step in which the stream raises marks the device unavailable,
\* creates exactly one task, the guard, which has not run yet, starts no
\* reconnect body itself, ends the observation task normally and leaves the
\* cache as it was: the item the stream yielded in the step before.
C6_ObserveFailure ==
    [][ ev'.op = "observe_fail" =>
          LET t == ev'.task IN
          /\ tasks[t].kind = "observe" /\ tasks[t].pc = "iter"
          /\ ~device_available'
          /\ Len(tasks') = Len(tasks) + 1
          /\ tasks'[Len(tasks')] = Task("guard", "start", tasks[t].cl, 0)
          /\ \A u \in TaskIds \ {t} : tasks'[u] = tasks[u]
          /\ tasks'[t].pc = "done"
          /\ reconnect_task' = reconnect_task
          /\ data' = data
          /\ (ev.op = "observe_item" /\ ev.task = t) => data' = ev.item
      ]_vars

\* C6 witness: the stream had yielded an item to the task and then raised.
C6_Witness ==
    /\ ev.op = "observe_fail"
    /\ tasks[ev.task].got = 1 /\ tasks[ev.task].pc = "done"
    /\ data \in Statuses
    /\ ~device_available
    /\ tasks[Len(tasks)].kind = "guard" /\ tasks[Len(tasks)].pc = "start"

\* C7 (as the specification states it): when the stream ends without raising,
\* the device is marked unavailable and the guard is scheduled.
C7_StreamEndTriggersReconnect ==
    ev.op = "observe_end" =>
        /\ ~device_available
        /\ tasks[Len(tasks)].kind \in {"guard", "reconnect"}
        /\ tasks[Len(tasks)].pc = "start"

\* C8: a watchdog step taken when its sleep is over marks the device
\* unavailable and runs the guard exactly when last_update is not 0 and
\* now - last_update > timeout * 3; otherwise it changes nothing but its own
\* next sleep.
C8_WatchdogDecision ==
    [][ ev'.op \in {"watchdog_fire", "watchdog_idle"} =>
          LET t == ev'.task
              stale == last_update # 0
                       /\ now - last_update > timeout * MISSED_PACKAGE_COUNT
          IN
          /\ tasks[t].kind = "watchdog" /\ tasks[t].pc = "sleep"
          /\ now >= tasks[t].wake
          /\ (ev'.op = "watchdog_fire") <=> stale
          /\ stale =>
                /\ ~device_available'
                /\ InSeq("async_reconnect", ev'.seq)
                /\ reconnect_task' # 0 /\ ~Done(tasks', reconnect_task')
          /\ ~stale =>
                /\ UNCHANGED << client, created, shutdowns, data, timeout,
                                last_update, device_available, observe_task,
                                watchdog_task, reconnect_task >>
                /\ Len(tasks') = Len(tasks)
                /\ \A u \in TaskIds \ {t} : tasks'[u] = tasks[u]
          /\ tasks'[t] = Task("watchdog", "sleep", 0, now + timeout * MISSED_PACKAGE_COUNT)
      ]_vars

\* C8 witness: the watchdog fired on a device that was still marked available.
C8_Witness ==
    /\ ev.op = "watchdog_fire"
    /\ "warning_unavailable" \in ev.logs
    /\ now - last_update > timeout * MISSED_PACKAGE_COUNT
    /\ ~device_available

C10_ConnectFailure ==
    [][ ev'.op = "reconnect_connect_fail" =>
          LET t == ev'.task IN
          /\ tasks[t].kind = "reconnect" /\ tasks[t].pc = "connect"
          /\ tasks'[t].pc = "done"
          /\ shutdowns[tasks[t].cl] >= 1
          /\ client' = client /\ client = tasks[t].cl
          /\ UNCHANGED << created, shutdowns, data, timeout, last_update,
                          observe_task, watchdog_task, reconnect_task,
                          device_available >>
          /\ Len(tasks') = Len(tasks)
          /\ \A u \in TaskIds \ {t} : tasks'[u] = tasks[u]
      ]_vars

C10_Witness ==
    /\ ev.op = "reconnect_connect_fail"
    /\ tasks[ev.task].pc = "done"
    /\ tasks[ev.task].cl = client
    /\ shutdowns[client] = 1
    /\ reconnect_task = ev.task
    /\ observe_task # 0

\* C11: the step in which the connect returns stores the new client; the step
\* in which its get_status returns or raises keeps that client, ends the body
\* normally and restarts the pair once: the two previous tasks are finished
\* and exactly one new observation task and one new watchdog task exist.
C11_ConnectSuccessRestartsPair ==
    [][ /\ ev'.op = "reconnect_connect_ok" =>
              /\ client' # client /\ client' = created' /\ created' = created + 1
              /\ tasks'[ev'.task].pc = "get_status"
        /\ ev'.op \in {"reconnect_status_ok", "reconnect_status_fail"} =>
              LET t == ev'.task IN
              /\ tasks[t].kind = "reconnect" /\ tasks[t].pc = "get_status"
              /\ tasks'[t].pc = "done"
              /\ client' = client /\ client = created /\ client # tasks[t].cl
              /\ Len(tasks') = Len(tasks) + 2
              /\ observe_task' = Len(tasks) + 1
              /\ watchdog_task' = Len(tasks) + 2
              /\ tasks'[observe_task'] = Task("observe", "start", 0, 0)
              /\ tasks'[watchdog_task'] = Task("watchdog", "start", 0, 0)
              /\ \A u \in TaskIds : tasks[u].kind \in {"observe", "watchdog"}
                                       => Finished(tasks'[u])
      ]_vars

\* C11 witness: the status fetch on the new client raised, and the pair was
\* restarted on that client all the same.
C11_Witness ==
    /\ ev.op = "reconnect_status_fail"
    /\ client = 2
    /\ tasks[ev.task].pc = "done"
    /\ observe_task = Len(tasks) - 1 /\ tasks[observe_task].pc = "start"
    /\ watchdog_task = Len(tasks) /\ tasks[watchdog_task].pc = "start"

\* C12: in the step in which the post-connect get_status returns (S, h) the
\* hint is h, the flag is true and the cache is S, set before the pair is
\* restarted: the new tasks have not run.
C12_ReconnectStatusSuccess ==
    ev.op = "reconnect_status_ok" =>
        /\ timeout = ev.hint /\ timeout \in Hints
        /\ device_available
        /\ data = ev.item /\ data \in Statuses
        /\ Before("timeout", "start_observing", ev.seq)
        /\ Before("mark_available", "start_observing", ev.seq)
        /\ Before("set_data", "start_observing", ev.seq)
        /\ tasks[observe_task].pc = "start" /\ tasks[watchdog_task].pc = "start"

\* C12 witness: the reconnect replaced the hint and the cache and brought the
\* device back online.
C12_Witness ==
    /\ ev.op = "reconnect_status_ok"
    /\ "info_back_online" \in ev.logs
    /\ ev.hint = 2 /\ timeout = 2
    /\ data = [pwr |-> "0", mode |-> "AG"]

CommandOps == {"set_control_value", "set_control_values", "write_ok", "write_raised"}

\* C13: a call of async_set_control_values(m) makes one write, on the client
\* held at the call, with the map m; a call of async_set_control_value(k, v)
\* makes the write that async_set_control_values({k: v}) makes; the return of
\* the write, normal or not, is followed by no further write.
C13_CommandForwarded ==
    /\ ev.op = "set_control_values" =>
          /\ ev.item = ev.arg /\ ev.item \in ControlMaps
          /\ ev.cl = client
          /\ ev.seq = << "client_set_control_values" >>
          /\ cmd = "writing"
    /\ ev.op = "set_control_value" =>
          /\ DOMAIN ev.item = {ev.arg[1]}
          /\ ev.item[ev.arg[1]] = ev.arg[2]
          /\ ev.item = SetControlValues(ev.arg[1] :> ev.arg[2])
          /\ ev.cl = client
          /\ ev.seq = << "client_set_control_values" >>
          /\ cmd = "writing"
    /\ ev.op \in {"write_ok", "write_raised"} => ev.seq = << >> /\ cmd = "idle"

\* C13 witness: a single value was sent to the client a reconnect had stored.
C13_Witness ==
    /\ ev.op = "set_control_value"
    /\ ev.item = [pwr |-> "0"]
    /\ ev.cl = 2 /\ client = 2

\* C14: when the client's write raises, the caller gets that same error; the
\* step writes nothing again, logs nothing, leaves the availability flag and
\* the reconnect handle as they were and creates no task.
C14_WriteErrorPropagates ==
    [][ ev'.op = "write_raised" =>
          /\ ev'.error \in WriteErrors
          /\ ev'.raised = ev'.error
          /\ ev'.seq = << >> /\ ev'.logs = {}
          /\ cmd = "writing" /\ cmd' = "idle"
          /\ UNCHANGED << device_available, reconnect_task, tasks >>
      ]_vars

\* C14 witness: the write failed while the device was marked available and no
\* reconnect had ever been started.
C14_Witness ==
    /\ ev.op = "write_raised"
    /\ ev.raised = "connection lost"
    /\ device_available
    /\ reconnect_task = 0 /\ TasksOfKind("reconnect") = {}

\* C15: no step of the command path changes the cache, the last-update time,
\* the hint, the client handle or a task handle.
C15_CommandFrame ==
    [][ ev'.op \in CommandOps =>
          UNCHANGED << data, last_update, timeout, client, observe_task,
                       watchdog_task, reconnect_task >>
      ]_vars

\* C15 witness: a write returned while a reconnect body was in flight and the
\* cache was filled.
C15_Witness ==
    /\ ev.op = "write_ok"
    /\ data \in Statuses
    /\ reconnect_task # 0 /\ ~Done(tasks, reconnect_task)
    /\ observe_task # 0

\* ---- C16 ---------------------------------------------------------------
\* C16: the step of async_shutdown up to its await ends every task a handle
\* names (a task already finished stays as it was, a pending one is
\* cancelled), leaves the three handles null and calls shutdown() once on the
\* client; when that shutdown() raises, the error is suppressed and the call
\* returns normally. Tasks no handle names are not touched.
C16_Shutdown ==
    [][ /\ ev'.op = "shutdown_call" =>
            /\ \A h \in {observe_task, watchdog_task, reconnect_task} \ {0} :
                  tasks'[h].pc = IF Finished(tasks[h]) THEN tasks[h].pc ELSE "cancelled"
            /\ \A h \in TaskIds \ {observe_task, watchdog_task, reconnect_task} :
                  tasks'[h] = tasks[h]
            /\ Len(tasks') = Len(tasks)
            /\ observe_task' = 0 /\ watchdog_task' = 0 /\ reconnect_task' = 0
            /\ shutdowns' = [shutdowns EXCEPT ![client] = @ + 1]
        /\ ev'.op \in {"shutdown_ok", "shutdown_error_suppressed"} =>
            /\ caller = "shutting_down" /\ caller' = "stopped"
            /\ tasks' = tasks
            /\ << observe_task', watchdog_task', reconnect_task' >>
                 = << observe_task, watchdog_task, reconnect_task >>
      ]_vars

\* a shutdown that cancelled a running reconnect body and a stream, and whose
\* client.shutdown() raised, has returned
C16_Witness ==
    /\ ev.op = "shutdown_error_suppressed"
    /\ caller = "stopped"
    /\ \E t \in TaskIds : tasks[t].kind = "reconnect" /\ tasks[t].pc = "cancelled"
    /\ \E t \in TaskIds : tasks[t].kind = "observe" /\ tasks[t].pc = "cancelled"

\* ---- C17 ---------------------------------------------------------------
\* C17: across two calls of async_shutdown with nothing else touching the
\* client in between, the client's shutdown() is invoked at most once.
C17_ShutdownOncePerClient ==
    (shutdown_calls = 2 /\ TasksOfKind("reconnect") = {}) => shutdowns[client] <= 1

\* ---- C18 ---------------------------------------------------------------
\* C18: an observation task or a reconnect body that is cancelled, at whichever
\* await it is suspended, ends there: it takes no further step, and the step
\* that cancels it (async_shutdown, or the pair restart of another body)
\* creates no guard and no reconnect body, leaves the reconnect handle alone
\* or null, and turns the availability flag to false only where the
\* cancelling body itself saw getStatus fail before it restarted the pair.
C18_CancellationPropagates ==
    [][ \A t \in TaskIds : tasks[t].kind \in {"observe", "reconnect"} =>
          /\ tasks[t].pc = "cancelled" => (tasks'[t] = tasks[t] /\ ev'.task # t)
          /\ (~Finished(tasks[t]) /\ tasks'[t].pc = "cancelled") =>
                /\ ev'.op \in {"shutdown_call", "reconnect_status_ok",
                               "reconnect_status_fail"}
                /\ ev'.task # t
                /\ \A u \in (1..Len(tasks')) \ TaskIds :
                      tasks'[u].kind \in {"observe", "watchdog"}
                /\ Len(tasks') - Len(tasks) = IF ev'.op = "shutdown_call" THEN 0 ELSE 2
                /\ reconnect_task' \in {0, reconnect_task}
                /\ (device_available /\ ~device_available') =>
                      (ev'.op = "reconnect_status_fail"
                       /\ Before("mark_unavailable", "start_observing", ev'.seq))
      ]_vars

\* async_shutdown has just cancelled a stream and a reconnect body at once,
\* and the device is still marked available, with no guard waiting to run
C18_Witness ==
    /\ ev.op = "shutdown_call"
    /\ device_available
    /\ \E t \in TaskIds : tasks[t].kind = "reconnect" /\ tasks[t].pc = "cancelled"
    /\ \E t \in TaskIds : tasks[t].kind = "observe" /\ tasks[t].pc = "cancelled"
    /\ \A t \in TaskIds : tasks[t].kind \in {"guard", "reconnect"} => Finished(tasks[t])

\* ---- C19 ---------------------------------------------------------------
\* C19: a step writes the 'became unavailable' warning exactly when it turns
\* the availability flag from true to false, and the 'back online' line
\* exactly when it turns the flag from false to true; a step that calls
\* _mark_unavailable or _mark_available without changing the flag writes
\* neither.
C19_EdgeTriggered ==
    [][ /\ ("warning_unavailable" \in ev'.logs) <=> (device_available /\ ~device_available')
        /\ ("info_back_online" \in ev'.logs) <=> (~device_available /\ device_available')
      ]_vars

\* a stream failed while the device was already marked unavailable:
\* _mark_unavailable was called and wrote nothing
C19_Witness ==
    /\ ev.op = "observe_fail"
    /\ InSeq("mark_unavailable", ev.seq)
    /\ ~device_available
    /\ ev.logs = {}

\* ---- C20 ---------------------------------------------------------------
\* the log lines of warning level or above
WarningOrAbove == {"warning_unavailable", "warning_no_updates", "exception_reconnect_failed"}

\* C20: a failure met while the availability flag is already false (a watchdog
\* timeout, a failed connect of the reconnect body, a failed stream or
\* getStatus) writes no log line of warning level or above.
C20_SilentWhileUnavailable ==
    ( \/ ev.op \in {"watchdog_fire", "observe_fail", "reconnect_status_fail"}
            /\ "warning_unavailable" \notin ev.logs
      \/ ev.op = "reconnect_connect_fail" /\ ~device_available )
    => ev.logs \cap WarningOrAbove = {}

\* ---- C21 ---------------------------------------------------------------
\* a guard run (inside the watchdog, or as the task the observation loop
\* created) has just created a reconnect body
BodySpawned ==
    ev.op \in {"guard", "watchdog_fire"} /\ InSeq("create_reconnect_task", ev.seq)

\* C21: with no shutdown, a reconnect body whose connect failed is followed by
\* the start of another body, created by a later watchdog cycle or by the
\* guard after a stream failure (as long as the task table has room for the
\* guard and the body). The stream of the client the body shut down may fail
\* or stay silent, but yields no further item.
C21_RetryAfterConnectFailure ==
    (ev.op = "reconnect_connect_fail" /\ Len(tasks) + 2 <= MaxTasks) ~> BodySpawned

\* a body was created after an earlier body had ended with a failed connect
\* (no client has been created since start-up)
C21_Witness ==
    /\ BodySpawned
    /\ created = 1
    /\ \E t \in TaskIds : tasks[t].kind = "reconnect" /\ tasks[t].pc = "done"

\* ---- C22 ---------------------------------------------------------------
\* the stream has yielded an item or raised
StreamEvent == ev.op \in {"observe_item", "observe_fail"}

\* the watchdog has found the last update too old: it has marked the device
\* unavailable and its guard has created a reconnect body
WatchdogRecovered ==
    /\ ev.op = "watchdog_fire"
    /\ BodySpawned
    /\ ~device_available

\* C22: after a successful start-up with no shutdown, unless the stream yields
\* an item or raises, the watchdog eventually marks the device unavailable and
\* a reconnect body is created; no error from the stream is needed.
C22_SilentFailureDetected ==
    (ev.op = "first_refresh_ok") ~> (StreamEvent \/ WatchdogRecovered)

\* the watchdog recovered while the only stream was open and had never
\* yielded an item nor raised
C22_Witness ==
    /\ WatchdogRecovered
    /\ created = 1
    /\ TasksOfKind("observe") # {}
    /\ \A t \in TasksOfKind("observe") : tasks[t].pc = "iter" /\ tasks[t].got = 0

\* ---- C23 ---------------------------------------------------------------
\* the stream raised, or a connect or a getStatus of the reconnect body failed
FailEvent ==
    ev.op \in {"observe_fail", "reconnect_connect_fail", "reconnect_status_fail"}

\* the device is marked available and the current observation task consumes
\* the stream of the stored client, which has not been shut down
Healthy ==
    /\ device_available
    /\ observe_task # 0
    /\ tasks[observe_task].pc = "iter"
    /\ tasks[observe_task].cl = client
    /\ shutdowns[client] = 0

\* the task table of the model has no room left for the next step of recovery
TableFull ==
    \/ ~Room(1)
    \/ ~Room(2) /\ \E t \in TaskIds : At(t, "reconnect", "get_status")

CacheWrites == {"first_refresh_ok", "observe_item", "reconnect_status_ok"}

\* C24: a step that writes the cache (first refresh, stream item, getStatus of
\* a reconnect) leaves it equal to the map the client delivered in that step,
\* with exactly that map's keys; every other step leaves the cache as it was:
\* the cache is the map of the most recent write.
C24_LastWriteWins ==
    [][ IF ev'.op \in CacheWrites
        THEN data' = ev'.item /\ ev'.item \in Statuses
        ELSE data' = data ]_vars

\* the getStatus of a reconnect wrote the one-key map after a stream had
\* written the cache, while an older stream is still being consumed
C24_Witness ==
    /\ ev.op = "reconnect_status_ok"
    /\ data = [pwr |-> "1"]
    /\ \E t \in TaskIds : tasks[t].kind = "observe" /\ tasks[t].got = 1

\* ---- C25 ---------------------------------------------------------------
\* C25: the cache is null exactly as long as no status has been fetched
\* (start-up has not succeeded, so no observation task was ever created);
\* once a status has been written the cache is never null again, whatever
\* has failed or been shut down since.
C25_CacheNullUntilFirstWrite ==
    /\ (data = None) <=> (tasks = << >>)
    /\ data # None => data \in Statuses

\* the cache still holds a status after a stream failure, a failed reconnect
\* and a shutdown
C25_Witness ==
    /\ caller = "stopped"
    /\ data \in Statuses
    /\ ~device_available
    /\ \E t \in TaskIds : tasks[t].kind = "observe" /\ tasks[t].pc = "done"
    /\ \E t \in TaskIds : tasks[t].kind = "reconnect" /\ tasks[t].pc = "done"
    /\ created = 1

\* ---- C26 ---------------------------------------------------------------
\* the steps in which a getStatus has succeeded
HintWrites == {"first_refresh_ok", "update_ok", "reconnect_status_ok"}

\* C26: the hint is 60 at construction; a step in which getStatus succeeded
\* (first refresh, refresh request, reconnect) leaves it equal to the hint
\* returned in that step, and every other step, failed fetches included,
\* leaves it as it was. The watchdog reads the hint when it uses it: its
\* staleness test compares the age of the last update with three times the
\* hint held at the wake-up, and each sleep it starts lasts three times the
\* hint held when the sleep starts.
C26_HintFollowsLastFetch ==
    /\ timeout = DEFAULT_TIMEOUT
    /\ [][ /\ timeout' = IF ev'.op \in HintWrites THEN ev'.hint ELSE timeout
           /\ ev'.op \in HintWrites => ev'.hint \in Hints
           /\ ev'.op \in {"watchdog_fire", "watchdog_idle"} =>
                (ev'.op = "watchdog_fire"
                   <=> (last_update > 0 /\ now - last_update > 3 * timeout))
           /\ ev'.op \in {"watchdog_start", "watchdog_fire", "watchdog_idle"} =>
                /\ tasks'[ev'.task].pc = "sleep"
                /\ tasks'[ev'.task].wake = now + 3 * timeout
         ]_vars

\* a refresh request has just changed the hint while a watchdog sleeps for a
\* time it computed from another hint
C26_Witness ==
    /\ ev.op = "update_ok"
    /\ timeout = ev.hint
    /\ \E t \in TaskIds :
         /\ At(t, "watchdog", "sleep")
         /\ tasks[t].wake > now
         /\ \A d \in 0..now : tasks[t].wake # d + 3 * timeout

\* ---- C27 ---------------------------------------------------------------
\* the client objects created so far that nobody has asked to shut down
OpenClients == { c \in 1..created : shutdowns[c] = 0 }

\* C27: at most one client is open (created and not yet asked to shut down),
\* and it is the stored one; while a reconnect body waits for its connect,
\* the shutdown of the old client has been called and has returned or raised,
\* so no client is open at all.
C27_OneOpenClient ==
    /\ Cardinality(OpenClients) <= 1
    /\ OpenClients \subseteq {client}
    /\ \A t \in TaskIds : At(t, "reconnect", "connect") =>
          (OpenClients = {} /\ shutdowns[tasks[t].cl] >= 1)
    /\ ev.op = "reconnect_connect_ok" =>
          (OpenClients = {client} /\ \A c \in 1..(created - 1) : shutdowns[c] >= 1)

\* a second reconnect has just stored its new client: the two earlier clients
\* have both been shut down
C27_Witness ==
    /\ ev.op = "reconnect_connect_ok"
    /\ created = 3
    /\ OpenClients = {3}
    /\ client = 3

\* ---- C28 ---------------------------------------------------------------
\* C28: IDLE -> RECONNECTING -> IDLE. Given that every call on a client
\* returns or raises, a reconnect body that has been created ends (after its
\* getStatus, after a failed connect, or cancelled by async_shutdown), short
\* of a full task table; and whenever no body is unfinished, the guard, if
\* invoked, creates one.
C28_BodyTerminates ==
    /\ [](RunningBodies = {} => AsyncReconnect(tasks, reconnect_task).spawned)
    /\ (RunningBodies # {}) ~> (RunningBodies = {} \/ TableFull)

\* a body has been created after one body had ended by itself and another
\* had been cancelled
C28_Witness ==
    /\ BodySpawned
    /\ \E t \in TaskIds : tasks[t].kind = "reconnect" /\ tasks[t].pc = "done"
    /\ \E t \in TaskIds : tasks[t].kind = "reconnect" /\ tasks[t].pc = "cancelled"

\* ---- C29 ---------------------------------------------------------------
\* C29: a run of the guard (as the task the observation loop created, or inside
\* the watchdog) that finds the reconnect handle null or naming a finished task
\* creates exactly one task, a reconnect body that has not run yet, stores it
\* in the handle, and returns: the guard's task is done, the watchdog sleeps
\* again.
C29_GuardSpawnsWhenIdle ==
    [][ (/\ ev'.op \in {"guard", "watchdog_fire"}
         /\ (reconnect_task = 0 \/ Finished(tasks[reconnect_task])))
        => /\ Len(tasks') = Len(tasks) + 1
           /\ reconnect_task' = Len(tasks')
           /\ tasks'[reconnect_task'] = Task("reconnect", "start", 0, 0)
           /\ InSeq("create_reconnect_task", ev'.seq)
           /\ tasks'[ev'.task].pc = IF ev'.op = "guard" THEN "done" ELSE "sleep"
           /\ \A t \in TaskIds \ {ev'.task} : tasks'[t] = tasks[t]
      ]_vars

\* the guard's own task created a body while the handle named a body that
\* had finished
C29_Witness ==
    /\ ev.op = "guard"
    /\ InSeq("create_reconnect_task", ev.seq)
    /\ tasks[reconnect_task].pc = "start"
    /\ \E t \in TaskIds : tasks[t].kind = "reconnect" /\ tasks[t].pc = "done"
    /\ shutdown_calls = 0

\* ---- C30 ---------------------------------------------------------------
\* C30: in the reconnect body, when the shutdown of the old client raises, the
\* body is in the same place as after a clean shutdown: it has called
\* async_create_client and waits for the connect, it has logged nothing, and
\* the client it had shut down is still the stored one.
C30_ShutdownErrorSwallowed ==
    ev.op \in {"reconnect_shutdown_ok", "reconnect_shutdown_error"} =>
        /\ At(ev.task, "reconnect", "connect")
        /\ ev.seq = << "create_client" >>
        /\ ev.logs = {}
        /\ tasks[ev.task].cl = client
        /\ shutdowns[client] >= 1

\* the old client's shutdown has raised and the body is waiting for its
\* connect
C30_Witness ==
    /\ ev.op = "reconnect_shutdown_error"
    /\ At(ev.task, "reconnect", "connect")
    /\ reconnect_task = ev.task

\* ---- C31 ---------------------------------------------------------------
\* the tasks of one kind that have neither ended nor been cancelled
LiveTasks(kind) == { t \in TaskIds : tasks[t].kind = kind /\ ~Finished(tasks[t]) }

\* C31: at most one observation task and at most one watchdog task are alive
\* (neither ended nor cancelled), whatever the number of reconnects, and a
\* task that is alive is the one its handle names; a step that restarts the
\* pair has created exactly one task of each kind, the last two of the table.
C31_OnePairAlive ==
    /\ Cardinality(LiveTasks("observe")) <= 1
    /\ Cardinality(LiveTasks("watchdog")) <= 1
    /\ LiveTasks("observe") \subseteq {observe_task}
    /\ LiveTasks("watchdog") \subseteq {watchdog_task}
    /\ InSeq("start_observing", ev.seq) =>
          /\ observe_task = Len(tasks) - 1 /\ watchdog_task = Len(tasks)
          /\ tasks[observe_task] = Task("observe", "start", 0, 0)
          /\ tasks[watchdog_task] = Task("watchdog", "start", 0, 0)

\* a reconnect body has restarted the pair while the previous stream was still
\* open: the previous observation task and watchdog are cancelled, one of each
\* is alive
C31_Witness ==
    /\ ev.op \in {"reconnect_status_ok", "reconnect_status_fail"}
    /\ InSeq("start_observing", ev.seq)
    /\ \E t \in TaskIds : tasks[t].kind = "watchdog" /\ tasks[t].pc = "cancelled"
    /\ \E t \in TaskIds : tasks[t].kind = "observe" /\ tasks[t].pc = "cancelled"
    /\ Cardinality(LiveTasks("watchdog")) = 1
    /\ Cardinality(LiveTasks("observe")) = 1

\* ---- C32 ---------------------------------------------------------------
\* C32: when its getStatus returns (S, h), _async_update_data returns S,
\* leaves the hint equal to h and the device marked available; when its
\* getStatus raises, it leaves the device marked unavailable and the hint as
\* it was, and raises UpdateFailed. In both cases the cache, the time of the
\* last update, the three handles and the tasks are as before the step.
C32_FallbackFetch ==
    [][ /\ ev'.op = "update_ok" =>
            /\ ev'.item \in Statuses /\ ev'.seq[Len(ev'.seq)] = "return_status"
            /\ timeout' = ev'.hint
            /\ device_available'
        /\ ev'.op = "update_fail" =>
            /\ ~device_available'
            /\ timeout' = timeout
            /\ ev'.seq[Len(ev'.seq)] = "raise_update_failed"
        /\ ev'.op \in {"update_call", "update_ok", "update_fail"} =>
            /\ data' = data
            /\ last_update' = last_update
            /\ tasks' = tasks
            /\ << observe_task', watchdog_task', reconnect_task' >>
                 = << observe_task, watchdog_task, reconnect_task >>
            /\ client' = client
      ]_vars

\* a fetch has returned a status that differs from the one in the cache, and
\* has brought the device back online
C32_Witness ==
    /\ ev.op = "update_ok"
    /\ data \in Statuses /\ ev.item # data
    /\ "info_back_online" \in ev.logs
    /\ device_available

\* ---- async_fetch_status (client.py) -----------------------------------------------
CoordinatorVars ==
    << client, created, shutdowns, data, timeout, last_update, device_available,
       observe_task, watchdog_task, reconnect_task, tasks, now, caller,
       shutdown_calls, cmd, ev >>

ConnectErrors == {"connect_error", "connect_timeout"}
StatusErrors == {"status_error", "status_timeout"}
Returned(S) == [returned |-> S]
Raised(e) == [raised |-> e]

\* The helper ends: the caller gets result, and the call joins the record.
ProbeEnd(p, result) ==
    [p EXCEPT !.pc = "done", !.result = result,
              !.done = Append(p.done, [client |-> p.client, shutdowns |-> p.shutdowns,
                                       pending |-> p.pending, result |-> result,
                                       swallowed |-> p.swallowed])]

\* mutant: the client is shut down only after a status was returned
ProbeFinallyOnlyOnSuccess(p, outcome) ==
    IF "returned" \in DOMAIN outcome
    THEN [p EXCEPT !.pc = "shutdown", !.pending = outcome, !.shutdowns = p.shutdowns + 1]
    ELSE ProbeEnd(p, outcome)

\* The try block ends with outcome: the finally clause calls client.shutdown()
\* and waits for it (lines 33-35).
ProbeFinally(p, outcome) ==
    [p EXCEPT !.pc = "shutdown", !.pending = outcome, !.shutdowns = p.shutdowns + 1]

\* Line 29 up to the await in async_create_client.
FetchStatusCall ==
    /\ probe.pc \in {"idle", "done"}
    /\ Len(probe.done) < MaxFetches
    /\ probe' = [ProbeIdle EXCEPT !.pc = "connect", !.done = probe.done]
    /\ UNCHANGED << CoordinatorVars, patch, hass >>

\* The creator returned a client in time: get_status() is called under its
\* timeout (line 31).
FetchConnectOk ==
    /\ probe.pc = "connect"
    /\ probe' = [probe EXCEPT !.pc = "get_status", !.client = TRUE]
    /\ UNCHANGED << CoordinatorVars, patch, hass >>

\* The creator raised, or wait_for gave up after connect_timeout: the error
\* leaves line 29, before the try statement.
FetchConnectFail(e) ==
    /\ probe.pc = "connect"
    /\ probe' = ProbeEnd(probe, Raised(e))
    /\ UNCHANGED << CoordinatorVars, patch, hass >>

\* get_status() returned (S, _): return status, through the finally clause.
FetchStatusOk(S) ==
    /\ probe.pc = "get_status"
    /\ probe' = ProbeFinally(probe, Returned(S))
    /\ UNCHANGED << CoordinatorVars, patch, hass >>

\* get_status() raised, or wait_for gave up after status_timeout.
FetchStatusFail(e) ==
    /\ probe.pc = "get_status"
    /\ probe' = ProbeFinally(probe, Raised(e))
    /\ UNCHANGED << CoordinatorVars, patch, hass >>

\* mutant: an error of shutdown() is what the caller gets
FetchShutdownReturnRaises(ok) ==
    /\ probe.pc = "shutdown"
    /\ probe' = ProbeEnd([probe EXCEPT !.swallowed = ~ok],
                         IF ok THEN probe.pending ELSE Raised("shutdown_error"))
    /\ UNCHANGED << CoordinatorVars, patch, hass >>

\* shutdown() returned, or raised an Exception that contextlib.suppress
\* swallows: the helper ends as the try block left it.
FetchShutdownReturn(ok) ==
    /\ probe.pc = "shutdown"
    /\ probe' = ProbeEnd([probe EXCEPT !.swallowed = ~ok], probe.pending)
    /\ UNCHANGED << CoordinatorVars, patch, hass >>

\* The task that awaits the helper is cancelled. CancelledError is raised at
\* the await the helper is suspended in: at the connect it leaves the helper
\* at once, in the try block it passes through the finally clause, and in the
\* finally clause it is no Exception, so it is not suppressed.
FetchCancel ==
    /\ probe.pc \in {"connect", "get_status", "shutdown"}
    /\ probe' = CASE probe.pc = "connect" -> ProbeEnd(probe, Raised("cancelled"))
                  [] probe.pc = "get_status" -> ProbeFinally(probe, Raised("cancelled"))
                  [] probe.pc = "shutdown" -> ProbeEnd(probe, Raised("cancelled"))
    /\ UNCHANGED << CoordinatorVars, patch, hass >>

NextProbe ==
    \/ FetchStatusCall
    \/ FetchConnectOk
    \/ \E e \in ConnectErrors : FetchConnectFail(e)
    \/ \E S \in Statuses : FetchStatusOk(S)
    \/ \E e \in StatusErrors : FetchStatusFail(e)
    \/ \E ok \in BOOLEAN : FetchShutdownReturn(ok)
    \/ FetchCancel

SpecProbe == Init /\ [][NextProbe]_vars

\* ---- C33 ---------------------------------------------------------------
\* C33: in every call of async_fetch_status that has ended, the temporary
\* client, if it was created, was shut down exactly once, whether get_status
\* returned, raised, timed out or the call was cancelled; when shutdown()
\* raised, the caller still got what the try block had left (the status, or
\* the error of get_status); and when the connect failed there was no client,
\* no shutdown() call, and the caller got the connect error.
C33_ProbeShutsDownOnce ==
    \A i \in 1..Len(probe.done) :
        LET r == probe.done[i] IN
        /\ r.client =>
              /\ r.shutdowns = 1
              /\ r.pending \in { Returned(S) : S \in Statuses }
                               \cup { Raised(e) : e \in StatusErrors \cup {"cancelled"} }
        /\ r.swallowed => r.result = r.pending
        /\ ~r.client =>
              /\ r.shutdowns = 0
              /\ r.result \in { Raised(e) : e \in ConnectErrors \cup {"cancelled"} }

\* one call ended with the status although shutdown() raised, another with the
\* time-out of get_status although shutdown() raised
C33_Witness ==
    /\ Len(probe.done) = 2
    /\ probe.done[1].swallowed /\ probe.done[1].result \in { Returned(S) : S \in Statuses }
    /\ probe.done[2].swallowed /\ probe.done[2].result = Raised("status_timeout")
    /\ probe.done[2].shutdowns = 1

\* ---- entity commands (fan.py) -----------------------------------------------------
\* dict.update / item assignment on the status map the coordinator holds
Patched(d, p) ==
    [k \in DOMAIN d \cup DOMAIN p |-> IF k \in DOMAIN p THEN p[k] ELSE d[k]]

POWER_KEY == "pwr"
POWER_OFF == "0"
PresetModes == ControlMaps

\* mutant: the entity patches the cache before it awaits the write
EntityCommandCallPatchesFirst(op, arg, values) ==
    /\ caller = "running"
    /\ cmd = "idle"
    /\ cmd' = "entity_writing"
    /\ patch' = values
    /\ data' = Patched(data, values)
    /\ ev' = CommandEvent(op, arg, SetControlValues(values), client, "", "")
    /\ UNCHANGED << client, created, shutdowns, timeout, last_update,
                    device_available, observe_task, watchdog_task,
                    reconnect_task, tasks, now, caller, shutdown_calls, probe, hass >>

\* An entity command up to its await: the coordinator's write is called with
\* the values, which the entity will put into the cache when the await returns.
EntityCommandCall(op, arg, values) ==
    /\ caller = "running"
    /\ cmd = "idle"
    /\ cmd' = "entity_writing"
    /\ patch' = values
    /\ ev' = CommandEvent(op, arg, SetControlValues(values), client, "", "")
    /\ UNCHANGED << client, created, shutdowns, data, timeout, last_update,
                    device_available, observe_task, watchdog_task,
                    reconnect_task, tasks, now, caller, shutdown_calls, probe, hass >>

\* async_turn_off, line 105: async_set_control_value(power_key, power_off)
EntityTurnOffCall ==
    EntityCommandCall("turn_off", << POWER_KEY, POWER_OFF >>,
                      [k \in {POWER_KEY} |-> POWER_OFF])

\* async_set_preset_mode, lines 127-129, for a mode the model knows
EntitySetPresetModeCall(status_pattern) ==
    EntityCommandCall("set_preset_mode", status_pattern, status_pattern)

\* The awaited write returned: lines 106-107 and 130-131 put the values into
\* the map the coordinator holds now.
EntityWriteReturn ==
    /\ cmd = "entity_writing"
    /\ cmd' = "idle"
    /\ data' = Patched(data, patch)
    /\ patch' = None
    /\ ev' = CommandEvent("entity_write_ok", patch, None, 0, "", "")
    /\ UNCHANGED << client, created, shutdowns, timeout, last_update,
                    device_available, observe_task, watchdog_task,
                    reconnect_task, tasks, now, caller, shutdown_calls, probe, hass >>

\* The awaited write raised e: the lines after the await do not run.
EntityWriteFail(e) ==
    /\ cmd = "entity_writing"
    /\ cmd' = "idle"
    /\ patch' = None
    /\ ev' = CommandEvent("entity_write_raised", patch, None, 0, e, WriteRaises(e))
    /\ UNCHANGED << client, created, shutdowns, data, timeout, last_update,
                    device_available, observe_task, watchdog_task,
                    reconnect_task, tasks, now, caller, shutdown_calls, probe, hass >>

NextEntity ==
    \/ FirstRefreshCall
    \/ \E S \in Statuses, h \in Hints : FirstRefreshOk(S, h)
    \/ FirstRefreshFail
    \/ \E t \in TaskIds : ObserveStart(t)
    \/ \E t \in TaskIds, S \in Statuses : ObserveItem(t, S)
    \/ EntityTurnOffCall
    \/ \E p \in PresetModes : EntitySetPresetModeCall(p)
    \/ EntityWriteReturn
    \/ \E e \in WriteErrors : EntityWriteFail(e)

SpecEntity == Init /\ [][NextEntity]_vars

\* ---- C34 ---------------------------------------------------------------
\* C34: an entity command changes the cache in one step only, the one in which
\* its awaited write returns, and there it puts the command's values into the
\* cache held at that moment; the step that calls the write and the step in
\* which the write raises leave the cache as it is, so that between the call
\* and a write that raises only items of the stream change the cache.
C34_PatchAfterWrite ==
    [][ /\ ev'.op \in {"turn_off", "set_preset_mode", "entity_write_raised"} => data' = data
        /\ ev'.op = "entity_write_ok" => data' = Patched(data, patch)
        /\ (patch # None /\ data' # data) => ev'.op \in {"entity_write_ok", "observe_item"}
      ]_vars

\* the write of a turn_off raised while the cache says the device is on
C34_Witness ==
    /\ ev.op = "entity_write_raised"
    /\ ev.arg = [k \in {POWER_KEY} |-> POWER_OFF]
    /\ ev.raised # ""
    /\ data = [pwr |-> "1"]
    /\ patch = None

\* ---- C35 ---------------------------------------------------------------
\* C35: once async_shutdown has been called, no step starts a reconnect body,
\* creates a client, or creates an observation or watchdog task.
C35_StaysStopped ==
    [][ (caller \in {"shutting_down", "stopped"}) =>
            ( /\ ev'.op # "reconnect_start"
              /\ created' = created
              /\ \A t \in (1..Len(tasks')) \ TaskIds :
                    tasks'[t].kind \notin {"observe", "watchdog"} )
      ]_vars

\* ---- C36 ---------------------------------------------------------------
\* the client whose failure made task t call the guard: the observation task's
\* own client, or the client held when the watchdog found the stream silent

TriggerClient == tasks[ev.task].cl

\* C36: a guard that creates a reconnect body was scheduled by a stream
\* failure of the client that is current when it runs, so that the body it
\* creates shuts down the client whose stream failed.
C36_NoStaleTrigger ==
    (ev.op = "guard" /\ InSeq("create_reconnect_task", ev.seq)) => TriggerClient = client

\* ---- C37 ---------------------------------------------------------------
\* C37: from the successful end of async_first_refresh_and_observe until
\* async_shutdown is called, the watchdog handle names a watchdog task that is
\* neither finished nor cancelled.
C37_WatchdogAlive ==
    caller = "running" =>
        /\ watchdog_task \in TaskIds
        /\ LiveTasks("watchdog") = {watchdog_task}

\* the watchdog has triggered a reconnect and sleeps again, and an earlier
\* watchdog was cancelled and replaced by a pair restart
C37_Witness ==
    /\ caller = "running"
    /\ ev.op = "watchdog_fire"
    /\ tasks[watchdog_task].pc = "sleep"
    /\ \E t \in TaskIds : tasks[t].kind = "watchdog" /\ tasks[t].pc = "cancelled"

\* ---- C38 ---------------------------------------------------------------
\* a reconnect body has installed its new client and not yet restarted the pair
BodyBeforeRestart == \E b \in TaskIds : At(b, "reconnect", "get_status")

\* C38: an item that is written to the cache and refreshes the time of the
\* last update comes from the observation task the handle names, and that
\* task's stream belongs to the client held now; the one exception is the time
\* between a body's new client and its restart of the pair, in which the old
\* task is still the one the handle names.
C38_NoStaleItems ==
    ev.op = "observe_item" =>
        /\ ev.task = observe_task
        /\ data = ev.item /\ last_update = now
        /\ tasks[ev.task].cl = client \/ BodyBeforeRestart

\* after a body replaced the client and restarted the pair, an item of the new
\* client's stream is written while the old observation task is cancelled
C38_Witness ==
    /\ ev.op = "observe_item"
    /\ client > 1
    /\ tasks[ev.task].cl = client
    /\ ~BodyBeforeRestart
    /\ \E t \in TaskIds : /\ tasks[t].kind = "observe" /\ tasks[t].pc = "cancelled"
                          /\ tasks[t].cl # 0 /\ tasks[t].cl # client

\* ---- C39 ---------------------------------------------------------------
\* C39: when async_setup_entry has failed with ConfigEntryNotReady because the
\* first refresh failed, the client it had created has been shut down.
C39_FailedSetupShutsClient ==
    caller = "not_ready" => shutdowns[client] >= 1

\* ---- the integration's set-up and unload (__init__.py, services.py) --------------
\* async_setup_services, lines 139-141: each service is registered unless it is
\* registered already
SetupServices(services) == services \cup ServiceNames

\* async_unload_services: each service is removed if it is registered
UnloadServices(services) == services \ ServiceNames

\* the entries other than e that Home Assistant holds as loaded (lines 123-127)
LoadedEntries(e) == { x \in Entries \ {e} : hass.entries[x] = "loaded" }

\* async_setup: once, when the integration is loaded
AsyncSetup ==
    /\ hass.component = "not_setup"
    /\ hass' = [hass EXCEPT !.component = "setup", !.services = SetupServices(@)]
    /\ UNCHANGED << CoordinatorVars, probe, patch >>

\* async_setup_entry is called for an entry that is not set up
SetupEntryCall(e) ==
    /\ hass.component = "setup"
    /\ hass.entries[e] \in {"not_loaded", "setup_retry"}
    /\ hass' = [hass EXCEPT !.entries[e] = "setup_in_progress"]
    /\ UNCHANGED << CoordinatorVars, probe, patch >>

\* async_setup_entry returned True (line 106): the entry is loaded
SetupEntryOk(e) ==
    /\ hass.entries[e] = "setup_in_progress"
    /\ hass' = [hass EXCEPT !.entries[e] = "loaded"]
    /\ UNCHANGED << CoordinatorVars, probe, patch >>

\* async_setup_entry raised ConfigEntryNotReady (line 73 or line 86)
SetupEntryFail(e) ==
    /\ hass.entries[e] = "setup_in_progress"
    /\ hass' = [hass EXCEPT !.entries[e] = "setup_retry"]
    /\ UNCHANGED << CoordinatorVars, probe, patch >>

\* async_unload_entry up to the await of line 114
UnloadEntryCall(e) ==
    /\ hass.entries[e] = "loaded"
    /\ hass' = [hass EXCEPT !.entries[e] = "unload_platforms"]
    /\ UNCHANGED << CoordinatorVars, probe, patch >>

\* async_unload_platforms returned unload_ok: when false the function returns
\* it (line 131), else it awaits the coordinator's async_shutdown (line 121)
UnloadPlatformsReturn(e, unload_ok) ==
    /\ hass.entries[e] = "unload_platforms"
    /\ hass' = [hass EXCEPT !.entries[e] =
                   IF unload_ok THEN "unload_shutdown" ELSE "failed_unload"]
    /\ UNCHANGED << CoordinatorVars, probe, patch >>

\* async_shutdown returned: lines 123-131. The services are removed when no
\* other entry is loaded, and the entry is unloaded.
UnloadShutdownReturn(e) ==
    /\ hass.entries[e] = "unload_shutdown"
    /\ hass' = [hass EXCEPT !.entries[e] = "not_loaded",
                            !.services = IF LoadedEntries(e) = {}
                                         THEN UnloadServices(@) ELSE @]
    /\ UNCHANGED << CoordinatorVars, probe, patch >>

NextHass ==
    \/ AsyncSetup
    \/ \E e \in Entries : SetupEntryCall(e)
    \/ \E e \in Entries : SetupEntryOk(e)
    \/ \E e \in Entries : SetupEntryFail(e)
    \/ \E e \in Entries : UnloadEntryCall(e)
    \/ \E e \in Entries, unload_ok \in BOOLEAN : UnloadPlatformsReturn(e, unload_ok)
    \/ \E e \in Entries : UnloadShutdownReturn(e)

SpecHass == Init /\ [][NextHass]_vars

\* ---- C40 ---------------------------------------------------------------
\* C40: after async_setup, in every state in which at least one config entry
\* is loaded, the services filter_reset and set_child_lock are registered.
C40_ServicesWhileLoaded ==
    (\E e \in Entries : hass.entries[e] = "loaded") => hass.services = ServiceNames

====
